---- MODULE Spec2Model ----
(***************************************************************************)
(* Orbis file storage: the unit of work that pairs one database session    *)
(* (file_meta table) with one AsyncFileSession (blob directory), the       *)
(* FileHolderService handlers that run inside it, and the advisory file    *)
(* locks of the blob directory.                                            *)
(*                                                                         *)
(* Every request is a coroutine; one model step is the code between two    *)
(* awaits that other requests can observe.  The blob directory and the     *)
(* table survive a process crash; sessions, pending maps, open lock files  *)
(* and open transactions do not.                                           *)
(***************************************************************************)
EXTENDS Naturals, FiniteSets, Sequences, TLC

(***************************************************************************)
(* Bounds of the model.                                                    *)
(***************************************************************************)
\* requests started in one run
MaxStarts == 3
\* requests started in one run of the metadata endpoints (MetaSpec)
MaxMetaStarts == 3
\* requests started in one run of the lock protocol (LockSpec)
MaxLockStarts == 3
\* length of the prefix a search is given (SearchSpec)
MaxPrefixLen == 3
\* injected I/O failures and process crashes in one run
MaxFaults == 2
\* failed non-blocking lock attempts before lock_timeout has elapsed
\* (lock_timeout / 0.1 s in the code)
LockRetries == 1

\* coroutine slots: at most two requests are in flight at a time
Requests == {1, 2}
Ids == {"u1", "u2"}
Paths == {"/a/", "/b/"}
Filenames == {"notes"}
Contents == {"x", "yy"}

\* len(file_data)
len(b) == IF b = "x" THEN 1 ELSE 2

Null == "null"
Unset == "unset"
NoFile == "nofile"
\* what an interrupted write leaves in a file
Partial == "partial"
NoId == "noid"

SHARED == "shared"
EXCLUSIVE == "exclusive"
NoLock == "none"

\* the endpoints that work on blobs, and the endpoints that work on rows only
Ops == {"create", "get", "delete", "sync"}
MetaOps == {"create", "update"}

\* FileUpdate bodies: Unset is a field the client left out, Null is an explicit null
NoUpdate == [filename |-> Unset, path |-> Unset, comment |-> Unset]

Updates ==
    {NoUpdate}
    \cup {[NoUpdate EXCEPT !.path = p] : p \in Paths \cup {Null}}
    \cup {[NoUpdate EXCEPT !.filename = f] : f \in {"draft", Null}}
    \cup {[NoUpdate EXCEPT !.comment = c] : c \in {"seen", Null}}
    \cup {[NoUpdate EXCEPT !.filename = Null, !.comment = "seen"]}

VARIABLES
    blobs,      \* <root>/<id>: committed blob files, id -> bytes or NoFile
    staging,    \* <root>/pending_<id>: staging files, id -> bytes or NoFile
    db,         \* committed rows of table file_meta
    used,       \* uuids already drawn by uuid4()
    pc,         \* position of each request's coroutine
    op,         \* the endpoint a request runs
    arg,        \* its input
    fid,        \* the id the request works on
    todo,       \* names left in the for loop of recover / delete_files_not_in_uuids
    uuids,      \* sync_storage_with_db: the uuids read from the table
    waited,     \* failed attempts of the lock loop that is running
    tx,         \* the request's open transaction
    pending,    \* AsyncFileSession._pending
    locks,      \* AsyncFileSession._locks (the flock held through each open lock file)
    err,        \* what the request raised ("none" while nothing was raised)
    ret,        \* what the handler returned
    dbDone,     \* db_session.commit() of this request has returned
    rolled,     \* file_session.rollback() of this request has run
    touched,    \* ids whose committed blob this request removed or replaced
    solo,       \* no other request was in flight while this one ran
    dangling,   \* ids of creates that crashed between the two commits
    created,    \* id -> the bytes a create that succeeded was given, Null once a
                \* delete has removed the blob
    lockfiles,  \* <root>/<id>.lock: the ids whose lock file exists
    startup,    \* the startup handler that creates the tables: its loop and outcome
    starts,
    faults

\* no startup handler is being followed
NoStartup == [fn |-> "none", retries |-> 0, attempt |-> 0, log |-> <<>>, slept |-> 0,
              at |-> "none", exc |-> "none"]

vars == <<blobs, staging, db, used, pc, op, arg, fid, todo, uuids, waited, tx,
          pending, locks, err, ret, dbDone, rolled, touched, solo, dangling, created,
          lockfiles, startup, starts, faults>>

(***************************************************************************)
(* Table file_meta.                                                        *)
(***************************************************************************)
FileMeta(uuid, filename, file_extension, path, size, comment) ==
    [uuid |-> uuid, filename |-> filename, file_extension |-> file_extension,
     path |-> path, size |-> size, comment |-> comment,
     created_at |-> "now", updated_at |-> Null]

EmptyTx == [ins |-> {}, del |-> {}, upd |-> {}]

RowIds(rows) == {m.uuid : m \in rows}

\* What a SELECT of request r returns: read committed, plus r's own flushed changes.
Visible(r) ==
    {m \in db : m.uuid \notin RowIds(tx[r].upd)} \cup tx[r].upd \cup tx[r].ins

get_by_id(r, id) == {m \in Visible(r) : m.uuid = id}

get_by_path_filename_extension(r, path, filename, ext) ==
    {m \in Visible(r) : m.path = path /\ m.filename = filename /\ m.file_extension = ext}

\* session.commit(): pending deletes are flushed, then the transaction is made durable.
\* A DELETE or UPDATE by primary key that matches no row changes nothing.
Committed(r) ==
    LET kept == {m \in db : m.uuid \notin tx[r].del /\ m.uuid \notin RowIds(tx[r].upd)}
        upd  == {m \in tx[r].upd : m.uuid \in RowIds(db) /\ m.uuid \notin tx[r].del}
        ins  == {m \in tx[r].ins : m.uuid \notin tx[r].del}
    IN kept \cup upd \cup ins

\* An UPDATE or DELETE of a row waits while another open transaction has updated it.
RowLocked(r, id) ==
    \E r2 \in Requests \ {r} : id \in RowIds(tx[r2].upd)

(***************************************************************************)
(* Blob directory and advisory locks.                                      *)
(***************************************************************************)
NoFiles == [i \in Ids |-> NoFile]
NoLocks == [i \in Ids |-> NoLock]

\* file names are a stem with or without the pending prefix in front and the lock
\* suffix behind
pending_file_prefix == "pending_"
LOCK_FILE_SUFFIX == ".lock"

\* os.listdir(<root>)
listdir ==
    {<<i>> : i \in {j \in Ids : blobs[j] # NoFile}}
    \cup {<<pending_file_prefix, i>> : i \in {j \in Ids : staging[j] # NoFile}}
    \cup {<<i, LOCK_FILE_SUFFIX>> : i \in lockfiles}

\* f.startswith(prefix), f.endswith(suffix)
startswith(f, prefix) == f[1] = prefix
endswith(f, suffix) == f[Len(f)] = suffix

\* a list_files that filters nothing
list_unfiltered == listdir

\* AsyncFileSession.list_files: the names, each a single stem once filtered
list_files ==
    {f \in listdir : ~startswith(f, pending_file_prefix) /\ ~endswith(f, LOCK_FILE_SUFFIX)}

\* the names recover() keeps from listdir, with the prefix cut off
pending_files == {f[2] : f \in {g \in listdir : startswith(g, pending_file_prefix)}}

\* a lock call that asks for LOCK_SH whatever the mode: only an exclusive holder is
\* in the way
FlockAlwaysShared(r, id, mode) ==
    \A r2 \in Requests \ {r} : locks[r2][id] \in {NoLock, SHARED}

\* portalocker.lock(lock_file, lock_type | LOCK_NB) succeeds
FlockFree(r, id, mode) ==
    \A r2 \in Requests \ {r} :
        \/ locks[r2][id] = NoLock
        \/ mode = SHARED /\ locks[r2][id] = SHARED

\* _acquire_lock returns at once: the session already holds a lock that is enough
AlreadyHeld(r, id, mode) ==
    locks[r][id] = EXCLUSIVE \/ locks[r][id] = mode

\* a loop that gives up at the first failed attempt
TryLockOnce(r, id, mode) ==
    IF AlreadyHeld(r, id, mode) THEN "held"
    ELSE IF FlockFree(r, id, mode) THEN "ok"
    ELSE "timeout"

\* one pass of _acquire_lock's loop: "held", "ok", "wait" or "timeout"
TryLock(r, id, mode) ==
    IF AlreadyHeld(r, id, mode) THEN "held"
    ELSE IF FlockFree(r, id, mode) THEN "ok"
    ELSE IF waited[r] < LockRetries THEN "wait"
    ELSE "timeout"

\* _locks after that pass (a weaker lock of the session is released before the loop)
LocksAfter(r, id, mode) ==
    CASE TryLock(r, id, mode) = "held" -> locks
      [] TryLock(r, id, mode) = "ok"   -> [locks EXCEPT ![r][id] = mode]
      [] OTHER                         -> [locks EXCEPT ![r][id] = NoLock]

\* the lock files after that pass: _lock() opens <id>.lock in append mode, which
\* creates it, before its first attempt
LockFilesAfter(r, id, mode) ==
    IF AlreadyHeld(r, id, mode) THEN lockfiles ELSE lockfiles \cup {id}

_release_lock(l, r, id) == [l EXCEPT ![r][id] = NoLock]

InFlight(r) == pc[r] \notin {"idle", "done", "failed", "crashed"}

\* request r has left recover() and is in its handler or in the commit phase
InHandler(r) == InFlight(r) /\ pc[r] \notin {"rec_lock", "rec_rm"}

Init ==
    /\ blobs = NoFiles
    /\ staging = NoFiles
    /\ db = {}
    /\ used = {}
    /\ pc = [r \in Requests |-> "idle"]
    /\ op = [r \in Requests |-> "none"]
    /\ arg = [r \in Requests |-> [id |-> NoId, path |-> Null, filename |-> Null,
                                  data |-> NoFile,
                                  update |-> [filename |-> Unset, path |-> Unset,
                                              comment |-> Unset]]]
    /\ fid = [r \in Requests |-> NoId]
    /\ todo = [r \in Requests |-> {}]
    /\ uuids = [r \in Requests |-> {}]
    /\ waited = [r \in Requests |-> 0]
    /\ tx = [r \in Requests |-> EmptyTx]
    /\ pending = [r \in Requests |-> NoFiles]
    /\ locks = [r \in Requests |-> NoLocks]
    /\ err = [r \in Requests |-> "none"]
    /\ ret = [r \in Requests |-> Null]
    /\ dbDone = [r \in Requests |-> FALSE]
    /\ rolled = [r \in Requests |-> FALSE]
    /\ touched = [r \in Requests |-> {}]
    /\ solo = [r \in Requests |-> TRUE]
    /\ dangling = {}
    /\ created = [i \in Ids |-> Null]
    /\ lockfiles = {}
    /\ startup = NoStartup
    /\ starts = 0
    /\ faults = 0

NoArg == [id |-> NoId, path |-> Null, filename |-> Null, data |-> NoFile,
          update |-> NoUpdate]

\* the inputs of one request: the endpoint and what the client sent
\* uuids are opaque: the next value of uuid4() is one fixed unused id, and a request
\* for an id that was never drawn asks for that same id
Fresh == IF Ids \ used = {} THEN {} ELSE {CHOOSE i \in Ids \ used : TRUE}

Inputs(o) ==
    CASE o = "create" ->
           {[NoArg EXCEPT !.id = i, !.path = p, !.filename = f, !.data = d] :
               i \in Fresh, p \in Paths, f \in Filenames, d \in Contents}
      [] o \in {"get", "delete"} -> {[NoArg EXCEPT !.id = i] : i \in used \cup Fresh}
      [] o = "update" ->
           {[NoArg EXCEPT !.id = i, !.update = u] : i \in used \cup Fresh, u \in Updates}
      [] OTHER -> {NoArg}

\* what stays of a request once it has ended: the endpoint, the id and the logical
\* name it was for, and the outcome
Ended(a) == [NoArg EXCEPT !.id = a.id, !.path = a.path, !.filename = a.filename]

\* The request ends: its coroutine is gone, the endpoint, the id and the outcome are
\* kept for the record.
Finish(r, status) ==
    /\ pc' = [pc EXCEPT ![r] = status]
    /\ arg' = [arg EXCEPT ![r] = Ended(arg[r])]
    /\ fid' = [fid EXCEPT ![r] = NoId]
    /\ todo' = [todo EXCEPT ![r] = {}]
    /\ uuids' = [uuids EXCEPT ![r] = {}]
    /\ waited' = [waited EXCEPT ![r] = 0]
    /\ touched' = [touched EXCEPT ![r] = {}]
    /\ UNCHANGED solo

(***************************************************************************)
(* get_file_holder_service: the session is built and recover() runs.       *)
(***************************************************************************)
\* A request arrives.  AsyncFileSession() is constructed (the slot's former session
\* object is dropped, which closes its lock files) and recover() lists the directory.
\* For a create, arg.id is the value uuid.uuid4() is going to return.
\* Requests are anonymous: a new one takes the lowest free coroutine slot.
Arrive(r, endpoints) ==
    /\ UNCHANGED <<created, lockfiles, startup>>
    /\ ~InFlight(r)
    /\ \A q \in Requests : q < r => InFlight(q)
    /\ \E o \in endpoints : \E a \in Inputs(o) :
         /\ op' = [op EXCEPT ![r] = o]
         /\ arg' = [arg EXCEPT ![r] = a]
         /\ used' = IF o = "create" THEN used \cup {a.id} ELSE used
    /\ starts' = starts + 1
    /\ pc' = [pc EXCEPT ![r] = IF pending_files = {} THEN "handler" ELSE "rec_lock"]
    /\ todo' = [todo EXCEPT ![r] = pending_files]
    /\ fid' = [fid EXCEPT ![r] = NoId]
    /\ uuids' = [uuids EXCEPT ![r] = {}]
    /\ waited' = [waited EXCEPT ![r] = 0]
    /\ tx' = [tx EXCEPT ![r] = EmptyTx]
    /\ pending' = [pending EXCEPT ![r] = NoFiles]
    /\ locks' = [locks EXCEPT ![r] = NoLocks]
    /\ err' = [err EXCEPT ![r] = "none"]
    /\ ret' = [ret EXCEPT ![r] = Null]
    /\ dbDone' = [dbDone EXCEPT ![r] = FALSE]
    /\ rolled' = [rolled EXCEPT ![r] = FALSE]
    /\ touched' = [touched EXCEPT ![r] = {}]
    /\ solo' = [q \in Requests |->
                  IF q = r THEN \A r2 \in Requests \ {r} : ~InFlight(r2)
                  ELSE IF InFlight(q) THEN FALSE ELSE solo[q]]
    /\ UNCHANGED <<blobs, staging, db, dangling, faults>>

Start(r) == starts < MaxStarts /\ Arrive(r, Ops)

StartMeta(r) == starts < MaxMetaStarts /\ Arrive(r, MetaOps)

StartLock(r) == starts < MaxLockStarts /\ Arrive(r, Ops)

\* An exception leaves get_file_holder_service before its try block: no rollback runs.
RaiseOutside(r, e) ==
    /\ Finish(r, "failed")
    /\ err' = [err EXCEPT ![r] = e]

\* The name a for loop (recover, delete_files_not_in_uuids) is at: the one whose lock
\* it is waiting for, or else any name left (listdir gives no order)
Current(r) == IF fid[r] # NoId THEN {fid[r]} ELSE todo[r]

\* recover() that goes to the removal without taking the lock of the name
RecoverNoLock(r) ==
    /\ UNCHANGED <<created, lockfiles, startup>>
    /\ pc[r] = "rec_lock"
    /\ \E i \in Current(r) :
         /\ pc' = [pc EXCEPT ![r] = "rec_rm"]
         /\ fid' = [fid EXCEPT ![r] = i]
         /\ todo' = [todo EXCEPT ![r] = todo[r] \ {i}]
    /\ UNCHANGED <<blobs, staging, db, used, op, tx, pending, locks, waited, err, arg,
                   uuids, touched, solo, ret, dbDone, rolled, dangling, starts, faults>>

\* recover(): the loop takes a pending name, _acquire_lock(file_name, EXCLUSIVE)
RecoverLock(r) ==
    /\ UNCHANGED <<created, startup>>
    /\ pc[r] = "rec_lock"
    /\ \E i \in Current(r) :
         LET res == TryLock(r, i, EXCLUSIVE) IN
         /\ locks' = LocksAfter(r, i, EXCLUSIVE)
         /\ lockfiles' = LockFilesAfter(r, i, EXCLUSIVE)
         /\ CASE res \in {"held", "ok"} ->
                   /\ pc' = [pc EXCEPT ![r] = "rec_rm"]
                   /\ fid' = [fid EXCEPT ![r] = i]
                   /\ todo' = [todo EXCEPT ![r] = todo[r] \ {i}]
                   /\ waited' = [waited EXCEPT ![r] = 0]
                   /\ UNCHANGED <<err, arg, uuids, touched, solo>>
              [] res = "wait" ->
                   /\ fid' = [fid EXCEPT ![r] = i]
                   /\ todo' = [todo EXCEPT ![r] = todo[r] \ {i}]
                   /\ waited' = [waited EXCEPT ![r] = waited[r] + 1]
                   /\ UNCHANGED <<pc, err, arg, uuids, touched, solo>>
              [] OTHER -> RaiseOutside(r, "FileLockError")
    /\ UNCHANGED <<blobs, staging, db, used, op, tx, pending,
                   ret, dbDone, rolled, dangling, starts, faults>>

\* recover() that releases the lock without removing the pending file
RecoverKeeps(r) ==
    /\ UNCHANGED <<created, lockfiles, startup>>
    /\ pc[r] = "rec_rm"
    /\ locks' = _release_lock(locks, r, fid[r])
    /\ pc' = [pc EXCEPT ![r] = IF todo[r] = {} THEN "handler" ELSE "rec_lock"]
    /\ fid' = [fid EXCEPT ![r] = NoId]
    /\ UNCHANGED <<blobs, staging, db, used, op, tx, pending, err, todo, waited, arg, uuids,
                   touched, solo, ret, dbDone, rolled, dangling, starts, faults>>

\* recover(): remove the pending file, release the lock in the finally clause; after
\* the last name the handler starts
RecoverRemove(r) ==
    /\ UNCHANGED <<created, lockfiles, startup>>
    /\ pc[r] = "rec_rm"
    /\ locks' = _release_lock(locks, r, fid[r])
    /\ IF staging[fid[r]] # NoFile
         THEN /\ staging' = [staging EXCEPT ![fid[r]] = NoFile]
              /\ pc' = [pc EXCEPT ![r] = IF todo[r] = {} THEN "handler" ELSE "rec_lock"]
              /\ fid' = [fid EXCEPT ![r] = NoId]
              /\ UNCHANGED <<err, todo, waited, arg, uuids, touched, solo>>
         ELSE /\ RaiseOutside(r, "FileNotFoundError")
              /\ UNCHANGED staging
    /\ UNCHANGED <<blobs, db, used, op, tx, pending,
                   ret, dbDone, rolled, dangling, starts, faults>>

(***************************************************************************)
(* FileHolderService handlers.  An exception raised here is caught by the  *)
(* except clause of get_file_holder_service: the request goes to rollback. *)
(***************************************************************************)
Raise(r, e) ==
    /\ pc' = [pc EXCEPT ![r] = "rollback"]
    /\ err' = [err EXCEPT ![r] = e]

\* post_file builds FileCreate with size=1
post_file_size == 1

\* create_file without its uniqueness query
create_file_unchecked(r) ==
    /\ UNCHANGED <<created, lockfiles, startup>>
    /\ pc[r] = "handler" /\ op[r] = "create"
    /\ tx' = [tx EXCEPT ![r].ins =
                 {FileMeta(arg[r].id, arg[r].filename, "txt", arg[r].path,
                           post_file_size, Null)}]
    /\ fid' = [fid EXCEPT ![r] = arg[r].id]
    /\ pc' = [pc EXCEPT ![r] = "save"]
    /\ UNCHANGED <<blobs, staging, db, used, op, arg, todo, uuids, waited, pending, locks,
                   err, ret, dbDone, rolled, touched, solo, dangling, starts, faults>>

\* create_file: the uniqueness query, then FileMetaRepository.save (INSERT, flushed)
create_file(r) ==
    /\ UNCHANGED <<created, lockfiles, startup>>
    /\ pc[r] = "handler" /\ op[r] = "create"
    /\ IF get_by_path_filename_extension(r, arg[r].path, arg[r].filename, "txt") # {}
         THEN /\ Raise(r, "ServiceFileAlreadyExistsError")
              /\ UNCHANGED <<tx, fid>>
         ELSE IF arg[r].id \in RowIds(Visible(r))
         THEN /\ Raise(r, "DatabaseOperationError")
              /\ UNCHANGED <<tx, fid>>
         ELSE /\ tx' = [tx EXCEPT ![r].ins =
                          {FileMeta(arg[r].id, arg[r].filename, "txt", arg[r].path,
                                    post_file_size, Null)}]
              /\ fid' = [fid EXCEPT ![r] = arg[r].id]
              /\ pc' = [pc EXCEPT ![r] = "save"]
              /\ UNCHANGED err
    /\ UNCHANGED <<blobs, staging, db, used, op, arg, todo, uuids, waited, pending, locks,
                   ret, dbDone, rolled, touched, solo, dangling, starts, faults>>

\* flush(): every pending entry is written to its staging path
flush(p, st) == [i \in Ids |-> IF p[i] # NoFile THEN p[i] ELSE st[i]]

\* FileRepository.save: add (exclusive lock, pending entry), then flush
save(r) ==
    /\ UNCHANGED <<created, startup>>
    /\ pc[r] = "save"
    /\ LET res == TryLock(r, fid[r], EXCLUSIVE)
           p   == [pending[r] EXCEPT ![fid[r]] = arg[r].data]
       IN
         /\ locks' = LocksAfter(r, fid[r], EXCLUSIVE)
         /\ lockfiles' = LockFilesAfter(r, fid[r], EXCLUSIVE)
         /\ CASE res \in {"held", "ok"} ->
                   /\ pending' = [pending EXCEPT ![r] = p]
                   /\ staging' = flush(p, staging)
                   /\ pc' = [pc EXCEPT ![r] = "db_commit"]
                   /\ waited' = [waited EXCEPT ![r] = 0]
                   /\ UNCHANGED err
              [] res = "wait" ->
                   /\ waited' = [waited EXCEPT ![r] = waited[r] + 1]
                   /\ UNCHANGED <<pc, err, pending, staging>>
              [] OTHER ->
                   /\ Raise(r, "FileLockError")
                   /\ waited' = [waited EXCEPT ![r] = 0]
                   /\ UNCHANGED <<pending, staging>>
    /\ UNCHANGED <<blobs, db, used, op, arg, fid, todo, uuids, tx,
                   ret, dbDone, rolled, touched, solo, dangling, starts, faults>>

\* FileRepository.save when the write of flush() fails: the lock and the pending
\* entry are there, the staging file is missing or cut short
save_write_error(r) ==
    /\ UNCHANGED <<created, startup>>
    /\ pc[r] = "save"
    /\ TryLock(r, fid[r], EXCLUSIVE) \in {"held", "ok"}
    /\ faults < MaxFaults
    /\ faults' = faults + 1
    /\ locks' = LocksAfter(r, fid[r], EXCLUSIVE)
    /\ lockfiles' = LockFilesAfter(r, fid[r], EXCLUSIVE)
    /\ pending' = [pending EXCEPT ![r][fid[r]] = arg[r].data]
    /\ \E left \in {staging[fid[r]], Partial} :
         staging' = [staging EXCEPT ![fid[r]] = left]
    /\ Raise(r, "OSError")
    /\ UNCHANGED <<blobs, db, used, op, arg, fid, todo, uuids, waited, tx,
                   ret, dbDone, rolled, touched, solo, dangling, starts>>

\* handlers that go on without looking at what get_file_meta returned
get_file_meta_unchecked(r) ==
    /\ UNCHANGED <<created, lockfiles, startup>>
    /\ pc[r] = "handler" /\ op[r] \in {"get", "delete", "update"}
    /\ fid' = [fid EXCEPT ![r] = arg[r].id]
    /\ pc' = [pc EXCEPT ![r] =
                CASE op[r] = "get" -> "get_lock"
                  [] op[r] = "delete" -> "del_lock"
                  [] OTHER -> "update"]
    /\ UNCHANGED <<blobs, staging, db, used, op, arg, todo, uuids, waited, tx, pending,
                   locks, err, ret, dbDone, rolled, touched, solo, dangling, starts, faults>>

\* get_file_meta at the head of get_file_by_id, delete_file and update_file_meta
get_file_meta(r) ==
    /\ UNCHANGED <<created, lockfiles, startup>>
    /\ pc[r] = "handler" /\ op[r] \in {"get", "delete", "update"}
    /\ IF get_by_id(r, arg[r].id) = {}
         THEN /\ Raise(r, "ServiceFileNotFoundError")
              /\ UNCHANGED fid
         ELSE /\ fid' = [fid EXCEPT ![r] = arg[r].id]
              /\ pc' = [pc EXCEPT ![r] =
                          CASE op[r] = "get" -> "get_lock"
                            [] op[r] = "delete" -> "del_lock"
                            [] OTHER -> "update"]
              /\ UNCHANGED err
    /\ ret' = IF op[r] = "update" /\ get_by_id(r, arg[r].id) # {}
                THEN [ret EXCEPT ![r] = get_by_id(r, arg[r].id)]
                ELSE ret
    /\ UNCHANGED <<blobs, staging, db, used, op, arg, todo, uuids, waited, tx, pending,
                   locks, dbDone, rolled, touched, solo, dangling, starts, faults>>

\* AsyncFileSession.get / delete: _acquire_lock, before the try block
acquire(r) ==
    /\ UNCHANGED <<created, startup>>
    /\ pc[r] \in {"get_lock", "del_lock"}
    /\ \E i \in Current(r) :
         LET mode == IF pc[r] = "get_lock" THEN SHARED ELSE EXCLUSIVE
             res  == TryLock(r, i, mode)
         IN
         /\ locks' = LocksAfter(r, i, mode)
         /\ lockfiles' = LockFilesAfter(r, i, mode)
         /\ CASE res \in {"held", "ok"} ->
                   /\ pc' = [pc EXCEPT ![r] = IF pc[r] = "get_lock" THEN "get_read"
                                                                   ELSE "del_rm"]
                   /\ fid' = [fid EXCEPT ![r] = i]
                   /\ todo' = [todo EXCEPT ![r] = todo[r] \ {i}]
                   /\ waited' = [waited EXCEPT ![r] = 0]
                   /\ UNCHANGED err
              [] res = "wait" ->
                   /\ fid' = [fid EXCEPT ![r] = i]
                   /\ todo' = [todo EXCEPT ![r] = todo[r] \ {i}]
                   /\ waited' = [waited EXCEPT ![r] = waited[r] + 1]
                   /\ UNCHANGED <<pc, err>>
              [] OTHER ->
                   /\ Raise(r, "FileLockError")
                   /\ waited' = [waited EXCEPT ![r] = 0]
                   /\ UNCHANGED <<fid, todo>>
    /\ UNCHANGED <<blobs, staging, db, used, op, arg, uuids, tx, pending,
                   ret, dbDone, rolled, touched, solo, dangling, starts, faults>>

\* AsyncFileSession.get: open and read <root>/<id>, release in the finally clause
get(r) ==
    /\ UNCHANGED <<created, lockfiles, startup>>
    /\ pc[r] = "get_read"
    /\ locks' = _release_lock(locks, r, fid[r])
    /\ IF blobs[fid[r]] = NoFile
         THEN /\ Raise(r, "FileNotFoundError")
              /\ UNCHANGED ret
         ELSE /\ ret' = [ret EXCEPT ![r] = blobs[fid[r]]]
              /\ pc' = [pc EXCEPT ![r] = "db_commit"]
              /\ UNCHANGED err
    /\ UNCHANGED <<blobs, staging, db, used, op, arg, fid, todo, uuids, waited, tx, pending,
                   dbDone, rolled, touched, solo, dangling, starts, faults>>

\* AsyncFileSession.delete: remove <root>/<id> when it exists, release in the finally
\* clause.  delete_file then marks the row deleted; delete_files_not_in_uuids goes on.
delete(r) ==
    /\ created' = [created EXCEPT ![fid[r]] = Null]
    /\ UNCHANGED <<lockfiles, startup>>
    /\ pc[r] = "del_rm"
    /\ locks' = _release_lock(locks, r, fid[r])
    /\ IF blobs[fid[r]] # NoFile
         THEN /\ blobs' = [blobs EXCEPT ![fid[r]] = NoFile]
              /\ touched' = [touched EXCEPT ![r] = touched[r] \cup {fid[r]}]
         ELSE UNCHANGED <<blobs, touched>>
    /\ IF op[r] = "delete"
         THEN /\ tx' = [tx EXCEPT ![r].del = tx[r].del \cup {fid[r]}]
              /\ pc' = [pc EXCEPT ![r] = "db_commit"]
         ELSE /\ pc' = [pc EXCEPT ![r] = IF todo[r] = {} THEN "db_commit" ELSE "del_lock"]
              /\ UNCHANGED tx
    /\ fid' = [fid EXCEPT ![r] = NoId]
    /\ UNCHANGED <<staging, db, used, op, arg, todo, uuids, waited, pending,
                   err, ret, dbDone, rolled, solo, dangling, starts, faults>>

\* FileUpdate.model_dump(exclude_unset=True)
model_dump(u) == {f \in {"filename", "path", "comment"} : u[f] # Unset}

\* an update that builds the row anew from the request body: size and created_at are
\* not carried over
UpdatedAnew(m, u) ==
    [f \in DOMAIN m |->
        IF f \in model_dump(u) THEN u[f]
        ELSE IF f = "updated_at" THEN "now"
        ELSE IF f = "size" THEN 0
        ELSE IF f = "created_at" THEN Null
        ELSE m[f]]

\* FileMetaRepository.update: setattr for every key of data, updated_at = now
Updated(m, u) ==
    [f \in DOMAIN m |->
        IF f \in model_dump(u) THEN u[f]
        ELSE IF f = "updated_at" THEN "now"
        ELSE m[f]]

\* the columns of file_meta that are declared NOT NULL
NotNullColumns == {"uuid", "filename", "file_extension", "size", "path"}

\* a table whose columns all take NULL
AnyRow(m) == TRUE

\* the row passes the NOT NULL constraints of the table (size is an integer that no
\* request body reaches)
IntegrityOk(m) == \A f \in NotNullColumns \ {"size"} : m[f] # Null

\* update_file_meta after the lookup: an empty body returns the row that was looked
\* up, anything else is flushed as an UPDATE by primary key (which waits for a row
\* lock, and fails when the row is gone or a NOT NULL column would become NULL)
update_file_meta(r) ==
    /\ UNCHANGED <<created, lockfiles, startup>>
    /\ pc[r] = "update"
    /\ IF model_dump(arg[r].update) = {}
         THEN /\ pc' = [pc EXCEPT ![r] = "db_commit"]
              /\ UNCHANGED <<tx, err, ret>>
         ELSE /\ ~RowLocked(r, fid[r])
              /\ IF \/ get_by_id(r, fid[r]) = {}
                    \/ \E m \in get_by_id(r, fid[r]) : ~IntegrityOk(Updated(m, arg[r].update))
                   THEN /\ Raise(r, "DatabaseOperationError")
                        /\ UNCHANGED <<tx, ret>>
                   ELSE /\ tx' = [tx EXCEPT ![r].upd =
                                    {Updated(m, arg[r].update) : m \in get_by_id(r, fid[r])}]
                        /\ pc' = [pc EXCEPT ![r] = "db_commit"]
                        /\ ret' = [ret EXCEPT ![r] =
                                     {Updated(m, arg[r].update) : m \in ret[r]}]
                        /\ UNCHANGED err
    /\ UNCHANGED <<blobs, staging, db, used, op, arg, fid, todo, uuids, waited, pending,
                   locks, dbDone, rolled, touched, solo, dangling, starts, faults>>

\* sync_storage_with_db: the set of uuids of FileMetaRepository.list()
sync_storage_with_db(r) ==
    /\ UNCHANGED <<created, lockfiles, startup>>
    /\ pc[r] = "handler" /\ op[r] = "sync"
    /\ uuids' = [uuids EXCEPT ![r] = RowIds(Visible(r))]
    /\ pc' = [pc EXCEPT ![r] = "sync_list"]
    /\ UNCHANGED <<blobs, staging, db, used, op, arg, fid, todo, waited, tx, pending, locks,
                   err, ret, dbDone, rolled, touched, solo, dangling, starts, faults>>

\* delete_files_not_in_uuids that deletes every file of the listing
delete_files_all(r) ==
    /\ UNCHANGED <<created, lockfiles, startup>>
    /\ pc[r] = "sync_list"
    /\ LET files == {f[1] : f \in list_files} IN
         /\ todo' = [todo EXCEPT ![r] = files]
         /\ pc' = [pc EXCEPT ![r] = IF files = {} THEN "db_commit" ELSE "del_lock"]
    /\ UNCHANGED <<blobs, staging, db, used, op, arg, fid, uuids, waited, tx, pending, locks,
                   err, ret, dbDone, rolled, touched, solo, dangling, starts, faults>>

\* delete_files_not_in_uuids: list_files(), kept to the names that are not in uuids
delete_files_not_in_uuids(r) ==
    /\ UNCHANGED <<created, lockfiles, startup>>
    /\ pc[r] = "sync_list"
    /\ LET files == {f[1] : f \in list_files} \ uuids[r] IN
         /\ todo' = [todo EXCEPT ![r] = files]
         /\ pc' = [pc EXCEPT ![r] = IF files = {} THEN "db_commit" ELSE "del_lock"]
    /\ UNCHANGED <<blobs, staging, db, used, op, arg, fid, uuids, waited, tx, pending, locks,
                   err, ret, dbDone, rolled, touched, solo, dangling, starts, faults>>

(***************************************************************************)
(* get_file_holder_service after the handler: commit phase and rollback.   *)
(***************************************************************************)
Pending(r) == {i \in Ids : pending[r][i] # NoFile}

ReleaseAll(l, r, P) == [l EXCEPT ![r] = [i \in Ids |-> IF i \in P THEN NoLock ELSE l[r][i]]]

\* db_session.commit() returns.  The DELETE it flushes waits for row locks.  With an
\* empty pending map file_session.commit() has nothing to await and ends the request.
db_commit(r) ==
    /\ UNCHANGED <<created, lockfiles, startup>>
    /\ pc[r] = "db_commit"
    /\ \A i \in tx[r].del : ~RowLocked(r, i)
    /\ db' = Committed(r)
    /\ tx' = [tx EXCEPT ![r] = EmptyTx]
    /\ dbDone' = [dbDone EXCEPT ![r] = TRUE]
    /\ IF Pending(r) = {}
         THEN Finish(r, "done")
         ELSE /\ pc' = [pc EXCEPT ![r] = "fs_commit"]
              /\ UNCHANGED <<arg, fid, todo, uuids, waited, touched, solo>>
    /\ UNCHANGED <<blobs, staging, used, op, pending, locks,
                   err, ret, rolled, dangling, starts, faults>>

\* db_session.commit() raises
db_commit_error(r) ==
    /\ UNCHANGED <<created, lockfiles, startup>>
    /\ pc[r] = "db_commit"
    /\ faults < MaxFaults
    /\ faults' = faults + 1
    /\ Raise(r, "commit failed")
    /\ UNCHANGED <<blobs, staging, db, used, op, arg, fid, todo, uuids, waited, tx, pending,
                   locks, ret, dbDone, rolled, touched, solo, dangling, starts>>

\* AsyncFileSession.commit() whose write of the staging file is cut short and goes
\* unnoticed: the truncated file is renamed to the final path
commit_truncated(r) ==
    /\ created' = [i \in Ids |-> IF i \in Pending(r) THEN pending[r][i] ELSE created[i]]
    /\ UNCHANGED <<lockfiles, startup>>
    /\ pc[r] = "fs_commit"
    /\ blobs' = [i \in Ids |-> IF i \in Pending(r) THEN Partial ELSE blobs[i]]
    /\ staging' = [i \in Ids |-> IF i \in Pending(r) THEN NoFile ELSE staging[i]]
    /\ locks' = ReleaseAll(locks, r, Pending(r))
    /\ pending' = [pending EXCEPT ![r] = NoFiles]
    /\ Finish(r, "done")
    /\ UNCHANGED <<db, used, op, tx, err, ret, dbDone, rolled, dangling, starts, faults>>

\* AsyncFileSession.commit() that never renames: the staging files are consumed and
\* no final file appears
commit_skips_rename(r) ==
    /\ created' = [i \in Ids |-> IF i \in Pending(r) THEN pending[r][i] ELSE created[i]]
    /\ UNCHANGED <<lockfiles, startup>>
    /\ pc[r] = "fs_commit"
    /\ staging' = [i \in Ids |-> IF i \in Pending(r) THEN NoFile ELSE staging[i]]
    /\ locks' = ReleaseAll(locks, r, Pending(r))
    /\ pending' = [pending EXCEPT ![r] = NoFiles]
    /\ Finish(r, "done")
    /\ UNCHANGED <<blobs, db, used, op, tx, err, ret, dbDone, rolled, dangling, starts, faults>>

\* AsyncFileSession.commit() that does not write a staging file that is already
\* there: what flush() wrote is renamed to the final path
commit_keeps_flushed(r) ==
    /\ created' = [i \in Ids |-> IF i \in Pending(r) THEN pending[r][i] ELSE created[i]]
    /\ UNCHANGED <<lockfiles, startup>>
    /\ pc[r] = "fs_commit"
    /\ blobs' = [i \in Ids |->
                   IF i \notin Pending(r) THEN blobs[i]
                   ELSE IF staging[i] # NoFile THEN staging[i]
                   ELSE pending[r][i]]
    /\ staging' = [i \in Ids |-> IF i \in Pending(r) THEN NoFile ELSE staging[i]]
    /\ locks' = ReleaseAll(locks, r, Pending(r))
    /\ pending' = [pending EXCEPT ![r] = NoFiles]
    /\ Finish(r, "done")
    /\ UNCHANGED <<db, used, op, tx, err, ret, dbDone, rolled, dangling, starts, faults>>

\* AsyncFileSession.commit(): every pending id is written to its staging path, the
\* final file is removed when there is one, the staging file is renamed to the final
\* path; the finally clause releases the locks of the pending ids and clears the map
commit(r) ==
    /\ created' = [i \in Ids |-> IF i \in Pending(r) THEN pending[r][i] ELSE created[i]]
    /\ UNCHANGED <<lockfiles, startup>>
    /\ pc[r] = "fs_commit"
    /\ blobs' = [i \in Ids |-> IF i \in Pending(r) THEN pending[r][i] ELSE blobs[i]]
    /\ staging' = [i \in Ids |-> IF i \in Pending(r) THEN NoFile ELSE staging[i]]
    /\ locks' = ReleaseAll(locks, r, Pending(r))
    /\ pending' = [pending EXCEPT ![r] = NoFiles]
    /\ Finish(r, "done")
    /\ UNCHANGED <<db, used, op, tx, err, ret, dbDone, rolled, dangling, starts, faults>>

\* AsyncFileSession.commit() raises at pending id k after the ids of D went through:
\* either the write of the staging file fails (the file is as it was, or cut short),
\* or the rename fails (the staging file is written, a former final file is removed).
\* The finally clause still releases the locks and clears the map.
commit_error(r) ==
    /\ UNCHANGED <<created, lockfiles, startup>>
    /\ pc[r] = "fs_commit"
    /\ faults < MaxFaults
    /\ faults' = faults + 1
    /\ \E k \in Pending(r) : \E D \in SUBSET (Pending(r) \ {k}) :
       \E at \in {"write", "rename"} : \E left \in {staging[k], Partial} :
         /\ at = "rename" => left = Partial
         /\ blobs' = [i \in Ids |->
                        IF i \in D THEN pending[r][i]
                        ELSE IF i = k /\ at = "rename" THEN NoFile
                        ELSE blobs[i]]
         /\ staging' = [i \in Ids |->
                          IF i \in D THEN NoFile
                          ELSE IF i = k THEN (IF at = "rename" THEN pending[r][k] ELSE left)
                          ELSE staging[i]]
         /\ touched' = [touched EXCEPT ![r] =
                          touched[r] \cup D
                          \cup (IF at = "rename" /\ blobs[k] # NoFile THEN {k} ELSE {})]
    /\ locks' = ReleaseAll(locks, r, Pending(r))
    /\ pending' = [pending EXCEPT ![r] = NoFiles]
    /\ Raise(r, "OSError")
    /\ UNCHANGED <<db, used, op, arg, fid, todo, uuids, waited, tx,
                   ret, dbDone, rolled, solo, dangling, starts>>

\* AsyncFileSession.rollback() that removes every staging file of the storage root
rollback_all(r) ==
    /\ staging' = NoFiles
    /\ locks' = ReleaseAll(locks, r, Pending(r))
    /\ pending' = [pending EXCEPT ![r] = NoFiles]
    /\ rolled' = [rolled EXCEPT ![r] = TRUE]

\* AsyncFileSession.rollback(): the staging files of the pending ids are removed, the
\* finally clause releases their locks and clears the map
rollback(r) ==
    /\ staging' = [i \in Ids |-> IF i \in Pending(r) THEN NoFile ELSE staging[i]]
    /\ locks' = ReleaseAll(locks, r, Pending(r))
    /\ pending' = [pending EXCEPT ![r] = NoFiles]
    /\ rolled' = [rolled EXCEPT ![r] = TRUE]

\* the except clause of a unit of work that takes the committed row back when the
\* blob commit has failed
except_rollback_undoes(r) ==
    /\ UNCHANGED <<created, lockfiles, startup>>
    /\ pc[r] = "rollback"
    /\ tx' = [tx EXCEPT ![r] = EmptyTx]
    /\ rollback(r)
    /\ Finish(r, "failed")
    /\ db' = IF dbDone[r] THEN {m \in db : m.uuid # arg[r].id} ELSE db
    /\ UNCHANGED <<blobs, used, op, err, ret, dbDone, dangling, starts, faults>>

\* the except clause: db_session.rollback(), file_session.rollback(), raise
except_rollback(r) ==
    /\ UNCHANGED <<created, lockfiles, startup>>
    /\ pc[r] = "rollback"
    /\ tx' = [tx EXCEPT ![r] = EmptyTx]
    /\ rollback(r)
    /\ Finish(r, "failed")
    /\ UNCHANGED <<blobs, db, used, op, err, ret, dbDone, dangling, starts, faults>>

\* the except clause when db_session.rollback() raises: file_session.rollback() is
\* not reached; leaving the async with block closes the database session
except_rollback_error(r) ==
    /\ UNCHANGED <<created, lockfiles, startup>>
    /\ pc[r] = "rollback"
    /\ ~dbDone[r]
    /\ faults < MaxFaults
    /\ faults' = faults + 1
    /\ tx' = [tx EXCEPT ![r] = EmptyTx]
    /\ Finish(r, "failed")
    /\ err' = [err EXCEPT ![r] = "rollback failed"]
    /\ UNCHANGED <<blobs, staging, db, used, op, pending, locks,
                   ret, dbDone, rolled, dangling, starts>>

\* The process dies and is started again: every request in flight ends there, open
\* lock files are closed, open transactions are gone; the directory and the table stay.
Crash ==
    /\ UNCHANGED <<created, lockfiles, startup>>
    /\ \E r \in Requests : InFlight(r)
    /\ faults < MaxFaults
    /\ faults' = faults + 1
    /\ pc' = [r \in Requests |-> IF InFlight(r) THEN "crashed" ELSE pc[r]]
    /\ locks' = [r \in Requests |-> NoLocks]
    /\ pending' = [r \in Requests |-> NoFiles]
    /\ tx' = [r \in Requests |-> EmptyTx]
    /\ arg' = [r \in Requests |-> Ended(arg[r])]
    /\ fid' = [r \in Requests |-> NoId]
    /\ todo' = [r \in Requests |-> {}]
    /\ uuids' = [r \in Requests |-> {}]
    /\ waited' = [r \in Requests |-> 0]
    /\ touched' = [r \in Requests |-> {}]
    /\ UNCHANGED solo
    /\ dangling' = dangling \cup {fid[r] : r \in {q \in Requests : pc[q] = "fs_commit"}}
    /\ UNCHANGED <<blobs, staging, db, used, op, err, ret, dbDone, rolled, starts>>

Step(r) ==
    \/ Start(r)
    \/ RecoverLock(r)
    \/ RecoverRemove(r)
    \/ create_file(r)
    \/ save(r)
    \/ save_write_error(r)
    \/ get_file_meta(r)
    \/ acquire(r)
    \/ get(r)
    \/ delete(r)
    \/ sync_storage_with_db(r)
    \/ delete_files_not_in_uuids(r)
    \/ db_commit(r)
    \/ db_commit_error(r)
    \/ commit(r)
    \/ commit_error(r)
    \/ except_rollback(r)
    \/ except_rollback_error(r)

Next == (\E r \in Requests : Step(r)) \/ Crash

Spec == Init /\ [][Next]_vars

\* The event loop runs every coroutine that is ready, and the lock loop runs in a
\* worker thread until it has the lock or lock_timeout is over: a request that can
\* take a step of its own code takes one.
Run(r) ==
    \/ RecoverLock(r)
    \/ RecoverRemove(r)
    \/ create_file(r)
    \/ save(r)
    \/ get_file_meta(r)
    \/ acquire(r)
    \/ get(r)
    \/ delete(r)
    \/ sync_storage_with_db(r)
    \/ delete_files_not_in_uuids(r)
    \/ db_commit(r)
    \/ commit(r)
    \/ except_rollback(r)

\* The endpoints that take locks, no I/O failures, under that scheduling.
LockStep(r) == StartLock(r) \/ Run(r)

LockNext == \E r \in Requests : LockStep(r)

LockSpec == Init /\ [][LockNext]_vars /\ \A r \in Requests : WF_vars(Run(r))

\* The task of a request is cancelled while it is in its handler or in the commit
\* phase: CancelledError is raised at the await the coroutine is at.  It is not an
\* Exception, so the except clause of get_file_holder_service does not run; the
\* finally clauses of get, delete and commit do, and leaving the async with block
\* closes the database session, which discards the open transaction.
Cancel(r) ==
    /\ UNCHANGED <<created, lockfiles, startup>>
    /\ InHandler(r) /\ pc[r] # "rollback"
    /\ faults < MaxFaults
    /\ faults' = faults + 1
    /\ tx' = [tx EXCEPT ![r] = EmptyTx]
    /\ IF pc[r] = "fs_commit"
         THEN /\ locks' = ReleaseAll(locks, r, Pending(r))
              /\ pending' = [pending EXCEPT ![r] = NoFiles]
         ELSE /\ locks' = IF pc[r] \in {"get_read", "del_rm"}
                            THEN _release_lock(locks, r, fid[r]) ELSE locks
              /\ UNCHANGED pending
    /\ Finish(r, "failed")
    /\ err' = [err EXCEPT ![r] = "CancelledError"]
    /\ UNCHANGED <<blobs, staging, db, used, op, ret, dbDone, rolled, dangling, starts>>

\* The endpoints under cancellation, no I/O failures.
CancelStep(r) == StartLock(r) \/ Run(r) \/ Cancel(r)

CancelNext == \E r \in Requests : CancelStep(r)

CancelSpec == Init /\ [][CancelNext]_vars

\* The metadata endpoints (PUT/PATCH /files/{id}) next to POST /files, no I/O failures.
MetaStep(r) ==
    \/ StartMeta(r)
    \/ RecoverLock(r)
    \/ RecoverRemove(r)
    \/ create_file(r)
    \/ save(r)
    \/ get_file_meta(r)
    \/ update_file_meta(r)
    \/ db_commit(r)
    \/ commit(r)
    \/ except_rollback(r)

MetaNext == \E r \in Requests : MetaStep(r)

MetaSpec == Init /\ [][MetaNext]_vars

(***************************************************************************)
(* The copy of the service under src/backend/src: update_file_meta takes   *)
(* the fields of the body as arguments, None for a field left out or null. *)
(***************************************************************************)
MaxSrcStarts == 3

\* tables the service can have committed: at most one row for an id
SrcTables ==
    {t \in SUBSET {FileMeta(i, f, "txt", p, post_file_size, Null) :
                      i \in Ids, f \in Filenames, p \in Paths} :
        \A m1, m2 \in t : m1.uuid = m2.uuid => m1 = m2}

SrcInit ==
    /\ db \in SrcTables
    /\ blobs = [i \in Ids |-> IF i \in RowIds(db) THEN "x" ELSE NoFile]
    /\ staging = NoFiles
    /\ used = RowIds(db)
    /\ pc = [r \in Requests |-> "idle"]
    /\ op = [r \in Requests |-> "none"]
    /\ arg = [r \in Requests |-> NoArg]
    /\ fid = [r \in Requests |-> NoId]
    /\ todo = [r \in Requests |-> {}]
    /\ uuids = [r \in Requests |-> {}]
    /\ waited = [r \in Requests |-> 0]
    /\ tx = [r \in Requests |-> EmptyTx]
    /\ pending = [r \in Requests |-> NoFiles]
    /\ locks = [r \in Requests |-> NoLocks]
    /\ err = [r \in Requests |-> "none"]
    /\ ret = [r \in Requests |-> Null]
    /\ dbDone = [r \in Requests |-> FALSE]
    /\ rolled = [r \in Requests |-> FALSE]
    /\ touched = [r \in Requests |-> {}]
    /\ solo = [r \in Requests |-> TRUE]
    /\ dangling = {}
    /\ created = [i \in Ids |-> IF i \in RowIds(db) THEN "x" ELSE Null]
    /\ lockfiles = {}
    /\ startup = NoStartup
    /\ starts = 0
    /\ faults = 0

StartSrc(r) == starts < MaxSrcStarts /\ Arrive(r, {"update"})

\* an argument of update_file_meta that is None
IsNone(v) == v \in {Unset, Null}

\* the assignments of update_file_meta: value or old value, updated_at = now
UpdatedSrc(m, u) ==
    [m EXCEPT !.filename = IF IsNone(u.filename) THEN m.filename ELSE u.filename,
              !.path = IF IsNone(u.path) THEN m.path ELSE u.path,
              !.comment = IF IsNone(u.comment) THEN m.comment ELSE u.comment,
              !.updated_at = "now"]

\* update_file_meta up to the lookup: ServiceError when every argument is None,
\* NotFound when the id has no row
update_file_meta_src(r) ==
    /\ UNCHANGED <<created, lockfiles, startup>>
    /\ pc[r] = "handler" /\ op[r] = "update"
    /\ IF \A f \in DOMAIN arg[r].update : IsNone(arg[r].update[f])
         THEN /\ Raise(r, "ServiceError")
              /\ UNCHANGED <<fid, ret>>
         ELSE IF get_by_id(r, arg[r].id) = {}
         THEN /\ Raise(r, "ServiceFileNotFoundError")
              /\ UNCHANGED <<fid, ret>>
         ELSE /\ fid' = [fid EXCEPT ![r] = arg[r].id]
              /\ ret' = [ret EXCEPT ![r] = get_by_id(r, arg[r].id)]
              /\ pc' = [pc EXCEPT ![r] = "flush_src"]
              /\ UNCHANGED err
    /\ UNCHANGED <<blobs, staging, db, used, op, arg, todo, uuids, waited, tx, pending,
                   locks, dbDone, rolled, touched, solo, dangling, starts, faults>>

\* the assignments and the flush of update_file_meta: an UPDATE by primary key, which
\* waits for a row lock and raises ServiceError when the row is gone
flush_src(r) ==
    /\ UNCHANGED <<created, lockfiles, startup>>
    /\ pc[r] = "flush_src"
    /\ ~RowLocked(r, fid[r])
    /\ IF get_by_id(r, fid[r]) = {}
         THEN /\ Raise(r, "ServiceError")
              /\ UNCHANGED <<tx, ret>>
         ELSE /\ tx' = [tx EXCEPT ![r].upd =
                          {UpdatedSrc(m, arg[r].update) : m \in get_by_id(r, fid[r])}]
              /\ ret' = [ret EXCEPT ![r] = {UpdatedSrc(m, arg[r].update) : m \in ret[r]}]
              /\ pc' = [pc EXCEPT ![r] = "db_commit"]
              /\ UNCHANGED err
    /\ UNCHANGED <<blobs, staging, db, used, op, arg, fid, todo, uuids, waited, pending,
                   locks, dbDone, rolled, touched, solo, dangling, starts, faults>>

SrcStep(r) ==
    \/ StartSrc(r)
    \/ update_file_meta_src(r)
    \/ flush_src(r)
    \/ db_commit(r)
    \/ except_rollback(r)

SrcNext == \E r \in Requests : SrcStep(r)

SrcSpec == SrcInit /\ [][SrcNext]_vars

(***************************************************************************)
(* AsyncFileSession driven call by call: any number of add() and flush()   *)
(* calls on a session, then commit() or rollback().                        *)
(***************************************************************************)
MaxSessions == 2

StartSession(r) == starts < MaxSessions /\ Arrive(r, {"session"})

\* the caller calls add(file_bytes, file_name)
call_add(r) ==
    /\ UNCHANGED <<created, lockfiles, startup>>
    /\ pc[r] = "handler" /\ op[r] = "session"
    /\ \E i \in Ids : \E b \in Contents :
         /\ arg' = [arg EXCEPT ![r].id = i, ![r].data = b]
         /\ fid' = [fid EXCEPT ![r] = i]
    /\ pc' = [pc EXCEPT ![r] = "add"]
    /\ UNCHANGED <<blobs, staging, db, used, op, todo, uuids, waited, tx, pending, locks,
                   err, ret, dbDone, rolled, touched, solo, dangling, starts, faults>>

\* add() that records the pending entry before it has the lock
add_entry_first(r) ==
    /\ UNCHANGED <<created, startup>>
    /\ pc[r] = "add"
    /\ LET res == TryLock(r, fid[r], EXCLUSIVE)
       IN
         /\ locks' = LocksAfter(r, fid[r], EXCLUSIVE)
         /\ lockfiles' = LockFilesAfter(r, fid[r], EXCLUSIVE)
         /\ pending' = [pending EXCEPT ![r][fid[r]] = arg[r].data]
         /\ CASE res \in {"held", "ok"} ->
                   /\ pc' = [pc EXCEPT ![r] = "handler"]
                   /\ arg' = [arg EXCEPT ![r] = NoArg]
                   /\ fid' = [fid EXCEPT ![r] = NoId]
                   /\ waited' = [waited EXCEPT ![r] = 0]
                   /\ UNCHANGED err
              [] res = "wait" ->
                   /\ waited' = [waited EXCEPT ![r] = waited[r] + 1]
                   /\ UNCHANGED <<pc, err, arg, fid>>
              [] OTHER ->
                   /\ Raise(r, "FileLockError")
                   /\ waited' = [waited EXCEPT ![r] = 0]
                   /\ UNCHANGED <<arg, fid>>
    /\ UNCHANGED <<blobs, staging, db, used, op, todo, uuids, tx,
                   ret, dbDone, rolled, touched, solo, dangling, starts, faults>>

\* AsyncFileSession.add: the exclusive lock, then the entry of the pending map
add(r) ==
    /\ UNCHANGED <<created, startup>>
    /\ pc[r] = "add"
    /\ LET res == TryLock(r, fid[r], EXCLUSIVE)
       IN
         /\ locks' = LocksAfter(r, fid[r], EXCLUSIVE)
         /\ lockfiles' = LockFilesAfter(r, fid[r], EXCLUSIVE)
         /\ CASE res \in {"held", "ok"} ->
                   /\ pending' = [pending EXCEPT ![r][fid[r]] = arg[r].data]
                   /\ pc' = [pc EXCEPT ![r] = "handler"]
                   /\ arg' = [arg EXCEPT ![r] = NoArg]
                   /\ fid' = [fid EXCEPT ![r] = NoId]
                   /\ waited' = [waited EXCEPT ![r] = 0]
                   /\ UNCHANGED err
              [] res = "wait" ->
                   /\ waited' = [waited EXCEPT ![r] = waited[r] + 1]
                   /\ UNCHANGED <<pc, err, pending, arg, fid>>
              [] OTHER ->
                   /\ Raise(r, "FileLockError")
                   /\ waited' = [waited EXCEPT ![r] = 0]
                   /\ UNCHANGED <<pending, arg, fid>>
    /\ UNCHANGED <<blobs, staging, db, used, op, todo, uuids, tx,
                   ret, dbDone, rolled, touched, solo, dangling, starts, faults>>

\* AsyncFileSession.flush: every pending entry is written to its staging path
session_flush(r) ==
    /\ UNCHANGED <<created, lockfiles, startup>>
    /\ pc[r] = "handler" /\ op[r] = "session"
    /\ Pending(r) # {}
    /\ staging' = flush(pending[r], staging)
    /\ UNCHANGED <<blobs, db, used, pc, op, arg, fid, todo, uuids, waited, tx, pending,
                   locks, err, ret, dbDone, rolled, touched, solo, dangling, starts,
                   faults>>

\* the caller ends the unit of work: commit() is called, or rollback() is
session_end(r) ==
    /\ UNCHANGED <<created, lockfiles, startup>>
    /\ pc[r] = "handler" /\ op[r] = "session"
    /\ \E to \in {"fs_commit", "rollback"} : pc' = [pc EXCEPT ![r] = to]
    /\ UNCHANGED <<blobs, staging, db, used, op, arg, fid, todo, uuids, waited, tx,
                   pending, locks, err, ret, dbDone, rolled, touched, solo, dangling,
                   starts, faults>>

SessionStep(r) ==
    \/ StartSession(r)
    \/ RecoverLock(r)
    \/ RecoverRemove(r)
    \/ call_add(r)
    \/ add(r)
    \/ session_flush(r)
    \/ session_end(r)
    \/ commit(r)
    \/ commit_error(r)
    \/ except_rollback(r)

SessionNext == \E r \in Requests : SessionStep(r)

SessionSpec == Init /\ [][SessionNext]_vars

(***************************************************************************)
(* AsyncFileSession driven call by call with get() and delete() among the  *)
(* calls, and commit() taken one awaited file operation at a time: the     *)
(* write of the staging file, the removal of the final file, the rename.   *)
(***************************************************************************)
MaxBlobStarts == 3

StartBlob(r) == starts < MaxBlobStarts /\ Arrive(r, {"session"})

\* the ids the callers of this section pass
BlobIds == {"u1"}

\* the caller calls add(file_bytes, file_name), get(file_name) or delete(file_name)
call_blob(r) ==
    /\ UNCHANGED <<created, lockfiles, startup>>
    /\ pc[r] = "handler" /\ op[r] = "session"
    /\ \E i \in BlobIds : \E to \in {"add", "get_lock", "del_lock"} :
       \E b \in Contents :
         /\ to # "add" => b = "x"
         /\ fid' = [fid EXCEPT ![r] = i]
         /\ arg' = IF to = "add" THEN [arg EXCEPT ![r].id = i, ![r].data = b] ELSE arg
         /\ pc' = [pc EXCEPT ![r] = to]
    /\ UNCHANGED <<blobs, staging, db, used, op, todo, uuids, waited, tx, pending,
                   locks, err, ret, dbDone, rolled, touched, solo, dangling, starts,
                   faults>>

\* AsyncFileSession.get called on the session: open and read <root>/<id>, release
\* in the finally clause, return to the caller
session_get(r) ==
    /\ UNCHANGED <<created, lockfiles, startup>>
    /\ pc[r] = "get_read" /\ op[r] = "session"
    /\ locks' = _release_lock(locks, r, fid[r])
    /\ IF blobs[fid[r]] = NoFile
         THEN /\ Raise(r, "FileNotFoundError")
              /\ UNCHANGED <<ret, fid>>
         ELSE /\ ret' = [ret EXCEPT ![r] = blobs[fid[r]]]
              /\ pc' = [pc EXCEPT ![r] = "handler"]
              /\ fid' = [fid EXCEPT ![r] = NoId]
              /\ UNCHANGED err
    /\ UNCHANGED <<blobs, staging, db, used, op, arg, todo, uuids, waited, tx, pending,
                   dbDone, rolled, touched, solo, dangling, starts, faults>>

\* AsyncFileSession.delete called on the session: remove <root>/<id> when it exists,
\* release in the finally clause, return True or False to the caller (who drops it)
session_delete(r) ==
    /\ UNCHANGED <<created, lockfiles, startup>>
    /\ pc[r] = "del_rm" /\ op[r] = "session"
    /\ locks' = _release_lock(locks, r, fid[r])
    /\ blobs' = [blobs EXCEPT ![fid[r]] = NoFile]
    /\ pc' = [pc EXCEPT ![r] = "handler"]
    /\ fid' = [fid EXCEPT ![r] = NoId]
    /\ UNCHANGED <<staging, db, used, op, arg, todo, uuids, waited, tx, pending,
                   err, ret, dbDone, rolled, touched, solo, dangling, starts, faults>>

\* the pending ids commit()'s loop has not gone through yet
CommitRest(r) == IF pc[r] = "fs_commit" THEN Pending(r) ELSE todo[r]

\* commit(): the loop takes a pending id and writes its bytes to the staging path
commit_write(r) ==
    /\ UNCHANGED <<created, lockfiles, startup>>
    /\ pc[r] \in {"fs_commit", "fs_next"}
    /\ \E k \in CommitRest(r) :
         /\ staging' = [staging EXCEPT ![k] = pending[r][k]]
         /\ fid' = [fid EXCEPT ![r] = k]
         /\ todo' = [todo EXCEPT ![r] = CommitRest(r) \ {k}]
    /\ pc' = [pc EXCEPT ![r] = "fs_remove"]
    /\ UNCHANGED <<blobs, db, used, op, arg, uuids, waited, tx, pending, locks, err, ret,
                   dbDone, rolled, touched, solo, dangling, starts, faults>>

\* commit(): that write fails, leaving the staging file as it was or cut short; the
\* finally clause releases the locks of the pending ids and clears the map
commit_write_error(r) ==
    /\ UNCHANGED <<created, lockfiles, startup>>
    /\ pc[r] \in {"fs_commit", "fs_next"}
    /\ faults < MaxFaults
    /\ faults' = faults + 1
    /\ \E k \in CommitRest(r) : \E left \in {staging[k], Partial} :
         staging' = [staging EXCEPT ![k] = left]
    /\ locks' = ReleaseAll(locks, r, Pending(r))
    /\ pending' = [pending EXCEPT ![r] = NoFiles]
    /\ Raise(r, "OSError")
    /\ UNCHANGED <<blobs, db, used, op, arg, fid, todo, uuids, waited, tx, ret,
                   dbDone, rolled, touched, solo, dangling, starts>>

\* commit(): if the final path exists it is removed
commit_remove(r) ==
    /\ UNCHANGED <<created, lockfiles, startup>>
    /\ pc[r] = "fs_remove"
    /\ blobs' = [blobs EXCEPT ![fid[r]] = NoFile]
    /\ pc' = [pc EXCEPT ![r] = "fs_rename"]
    /\ UNCHANGED <<staging, db, used, op, arg, fid, todo, uuids, waited, tx, pending,
                   locks, err, ret, dbDone, rolled, touched, solo, dangling, starts,
                   faults>>

\* commit(): if the staging path exists it is renamed to the final path
commit_rename(r) ==
    /\ UNCHANGED <<created, lockfiles, startup>>
    /\ pc[r] = "fs_rename"
    /\ IF staging[fid[r]] # NoFile
         THEN /\ blobs' = [blobs EXCEPT ![fid[r]] = staging[fid[r]]]
              /\ staging' = [staging EXCEPT ![fid[r]] = NoFile]
         ELSE UNCHANGED <<blobs, staging>>
    /\ pc' = [pc EXCEPT ![r] = "fs_next"]
    /\ fid' = [fid EXCEPT ![r] = NoId]
    /\ UNCHANGED <<db, used, op, arg, todo, uuids, waited, tx, pending, locks, err, ret,
                   dbDone, rolled, touched, solo, dangling, starts, faults>>

\* commit(): the loop is over; the finally clause releases the locks of the pending
\* ids and clears the map
commit_finally(r) ==
    /\ UNCHANGED <<created, lockfiles, startup>>
    /\ pc[r] \in {"fs_commit", "fs_next"}
    /\ CommitRest(r) = {}
    /\ locks' = ReleaseAll(locks, r, Pending(r))
    /\ pending' = [pending EXCEPT ![r] = NoFiles]
    /\ Finish(r, "done")
    /\ UNCHANGED <<blobs, staging, db, used, op, tx, err, ret, dbDone, rolled, dangling,
                   starts, faults>>

BlobStep(r) ==
    \/ StartBlob(r)
    \/ RecoverLock(r)
    \/ RecoverRemove(r)
    \/ call_blob(r)
    \/ add(r)
    \/ acquire(r)
    \/ session_get(r)
    \/ session_delete(r)
    \/ session_flush(r)
    \/ session_end(r)
    \/ commit_write(r)
    \/ commit_write_error(r)
    \/ commit_remove(r)
    \/ commit_rename(r)
    \/ commit_finally(r)
    \/ except_rollback(r)

BlobNext == \E r \in Requests : BlobStep(r)

BlobSpec == Init /\ [][BlobNext]_vars

(***************************************************************************)
(* Reconciliation of a storage root that has drifted from the table.  The  *)
(* directory and the table outlive the process: the service starts with    *)
(* whatever blobs, staging files and rows earlier runs and operators left. *)
(***************************************************************************)
MaxSyncStarts == 2

SyncInit ==
    /\ db \in SrcTables
    /\ blobs \in [Ids -> {NoFile, "x"}]
    /\ staging \in [Ids -> {NoFile, "x"}]
    /\ used = Ids
    /\ pc = [r \in Requests |-> "idle"]
    /\ op = [r \in Requests |-> "none"]
    /\ arg = [r \in Requests |-> NoArg]
    /\ fid = [r \in Requests |-> NoId]
    /\ todo = [r \in Requests |-> {}]
    /\ uuids = [r \in Requests |-> {}]
    /\ waited = [r \in Requests |-> 0]
    /\ tx = [r \in Requests |-> EmptyTx]
    /\ pending = [r \in Requests |-> NoFiles]
    /\ locks = [r \in Requests |-> NoLocks]
    /\ err = [r \in Requests |-> "none"]
    /\ ret = [r \in Requests |-> Null]
    /\ dbDone = [r \in Requests |-> FALSE]
    /\ rolled = [r \in Requests |-> FALSE]
    /\ touched = [r \in Requests |-> {}]
    /\ solo = [r \in Requests |-> TRUE]
    /\ dangling = {}
    /\ created = [i \in Ids |-> IF i \in RowIds(db) /\ blobs[i] # NoFile THEN "x" ELSE Null]
    /\ lockfiles = {}
    /\ startup = NoStartup
    /\ starts = 0
    /\ faults = 0

StartSync(r) == starts < MaxSyncStarts /\ Arrive(r, {"sync"})

SyncStep(r) ==
    \/ StartSync(r)
    \/ RecoverLock(r)
    \/ RecoverRemove(r)
    \/ sync_storage_with_db(r)
    \/ delete_files_not_in_uuids(r)
    \/ acquire(r)
    \/ delete(r)
    \/ db_commit(r)
    \/ except_rollback(r)

SyncNext == \E r \in Requests : SyncStep(r)

SyncSpec == SyncInit /\ [][SyncNext]_vars

(***************************************************************************)
(* Startup: the handler that creates the tables, with its retries.  Two    *)
(* copies exist: create_database (backend/app/core/database.py) and        *)
(* initialize_database (backend/src/injectors/connections.py).             *)
(***************************************************************************)
\* the largest db_retries the startup handler is configured with
MaxDbRetries == 4

StartupFns == {"create_database", "initialize_database"}

\* what a failed attempt raises: an error of SQLAlchemy, or the OSError of a
\* connection the server refuses
Failures == {"SQLAlchemyError", "OSError"}

\* the except clause of the loop: `except Exception` in create_database,
\* `except SQLAlchemyError` in initialize_database
Caught(fn, e) == fn = "create_database" \/ e = "SQLAlchemyError"

\* what the handler raises after the last attempt
RaisedAfterRetries(fn) ==
    IF fn = "create_database" THEN "DatabaseError" ELSE "DatabaseConnectionError"

\* DatabaseError and its subclasses
DatabaseErrors == {"DatabaseError", "DatabaseConnectionError", "DatabaseOperationError"}

\* the handler is called: retries = settings.db_retries (config.retries)
startup_begin ==
    /\ startup = NoStartup
    /\ \E f \in StartupFns : \E n \in 1..MaxDbRetries :
         startup' = [NoStartup EXCEPT !.fn = f, !.retries = n, !.at = "try"]
    /\ UNCHANGED <<blobs, staging, db, used, pc, op, arg, fid, todo, uuids, waited, tx,
                   pending, locks, err, ret, dbDone, rolled, touched, solo, dangling,
                   created, lockfiles, starts, faults>>

\* an attempt succeeds: Base.metadata.create_all ran, the loop is left
create_all_ok ==
    /\ startup.at = "try"
    /\ startup' = [startup EXCEPT !.log = Append(@, "ok"), !.at = "returned"]
    /\ UNCHANGED <<blobs, staging, db, used, pc, op, arg, fid, todo, uuids, waited, tx,
                   pending, locks, err, ret, dbDone, rolled, touched, solo, dangling,
                   created, lockfiles, starts, faults>>

\* an attempt fails with e: an exception the except clause does not name leaves the
\* handler as it is; a caught one goes to the sleep, or after the last attempt to the
\* raise
create_all_fails ==
    /\ startup.at = "try"
    /\ \E e \in Failures :
         startup' =
            IF ~Caught(startup.fn, e)
              THEN [startup EXCEPT !.log = Append(@, e), !.at = "raised", !.exc = e]
            ELSE IF startup.attempt < startup.retries - 1
              THEN [startup EXCEPT !.log = Append(@, e), !.at = "sleep"]
            ELSE [startup EXCEPT !.log = Append(@, e), !.at = "raised",
                                 !.exc = RaisedAfterRetries(startup.fn)]
    /\ UNCHANGED <<blobs, staging, db, used, pc, op, arg, fid, todo, uuids, waited, tx,
                   pending, locks, err, ret, dbDone, rolled, touched, solo, dangling,
                   created, lockfiles, starts, faults>>

\* the sleep of db_retry_delay (retry_delay_sec) is over: the next attempt
retry_sleep ==
    /\ startup.at = "sleep"
    /\ startup' = [startup EXCEPT !.slept = @ + 1, !.attempt = @ + 1, !.at = "try"]
    /\ UNCHANGED <<blobs, staging, db, used, pc, op, arg, fid, todo, uuids, waited, tx,
                   pending, locks, err, ret, dbDone, rolled, touched, solo, dangling,
                   created, lockfiles, starts, faults>>

RetryNext ==
    \/ startup_begin
    \/ create_all_ok
    \/ create_all_fails
    \/ retry_sleep

RetrySpec == Init /\ [][RetryNext]_vars

(***************************************************************************)
(* GET /files/search.  Paths are strings here: sequences of characters.    *)
(***************************************************************************)
\* characters FilePath lets through (^[a-zA-Z0-9._/-]+$), cut down to four
Alphabet == {"/", "a", "b", "_"}

\* the rows a table can hold: files at /a/, /a/b/ and /ab/
SearchIds == {"u1", "u2", "u3"}
SearchRows ==
    {FileMeta("u1", "notes", "txt", <<"/", "a", "/">>, post_file_size, Null),
     FileMeta("u2", "notes", "txt", <<"/", "a", "/", "b", "/">>, post_file_size, Null),
     FileMeta("u3", "notes", "txt", <<"/", "a", "b", "/">>, post_file_size, Null)}

Prefixes == UNION {[1..n -> Alphabet] : n \in 0..MaxPrefixLen}

\* SQL LIKE as PostgreSQL evaluates it: % stands for any string, _ for any one
\* character, every other character for itself
RECURSIVE Like(_, _)
Like(str, pat) ==
    IF pat = <<>> THEN str = <<>>
    ELSE IF Head(pat) = "%"
      THEN Like(str, Tail(pat)) \/ (str # <<>> /\ Like(Tail(str), pat))
    ELSE /\ str # <<>>
         /\ (Head(pat) = "_" \/ Head(pat) = Head(str))
         /\ Like(Tail(str), Tail(pat))

\* FileMetaRepository.get_by_path_startswith: FileMeta.path.startswith(word) is
\* rendered as  path LIKE word || '%'  with nothing in word escaped
get_by_path_startswith(rows, word) ==
    {m \in rows : Like(m.path, word \o <<"%">>)}

\* FileHolderService.search_files_by_path
search_files_by_path(rows, path_prefix) ==
    IF Len(path_prefix) = 0 THEN {}
    ELSE IF path_prefix[Len(path_prefix)] # "/"
      THEN get_by_path_startswith(rows, path_prefix \o <<"/">>)
    ELSE get_by_path_startswith(rows, path_prefix)

\* creates that succeeded one after the other have left some of the three rows, each
\* with its blob; nothing is in flight
SearchInit ==
    /\ db \in SUBSET SearchRows
    /\ blobs = [i \in SearchIds |-> IF i \in RowIds(db) THEN "x" ELSE NoFile]
    /\ staging = [i \in SearchIds |-> NoFile]
    /\ used = RowIds(db)
    /\ pc = [r \in Requests |-> "idle"]
    /\ op = [r \in Requests |-> "none"]
    /\ arg = [r \in Requests |-> NoArg]
    /\ fid = [r \in Requests |-> NoId]
    /\ todo = [r \in Requests |-> {}]
    /\ uuids = [r \in Requests |-> {}]
    /\ waited = [r \in Requests |-> 0]
    /\ tx = [r \in Requests |-> EmptyTx]
    /\ pending = [r \in Requests |-> NoFiles]
    /\ locks = [r \in Requests |-> NoLocks]
    /\ err = [r \in Requests |-> "none"]
    /\ ret = [r \in Requests |-> Null]
    /\ dbDone = [r \in Requests |-> FALSE]
    /\ rolled = [r \in Requests |-> FALSE]
    /\ touched = [r \in Requests |-> {}]
    /\ solo = [r \in Requests |-> TRUE]
    /\ dangling = {}
    /\ created = [i \in SearchIds |-> IF i \in RowIds(db) THEN "x" ELSE Null]
    /\ lockfiles = {}
    /\ startup = NoStartup
    /\ starts = 0
    /\ faults = 0

\* GET /files/search?file_path=p: the handler reads the table and returns; with no
\* staging file recover() has nothing to do, and the commits have nothing to write
search_files(r) ==
    /\ ~InFlight(r)
    /\ \A q \in Requests : q < r => InFlight(q)
    /\ pc[r] = "idle"
    /\ \A i \in SearchIds : staging[i] = NoFile
    /\ \E p \in Prefixes :
         /\ arg' = [arg EXCEPT ![r] = [NoArg EXCEPT !.path = p]]
         /\ ret' = [ret EXCEPT ![r] = search_files_by_path(db, p)]
    /\ op' = [op EXCEPT ![r] = "search"]
    /\ pc' = [pc EXCEPT ![r] = "done"]
    /\ dbDone' = [dbDone EXCEPT ![r] = TRUE]
    /\ starts' = starts + 1
    /\ UNCHANGED <<blobs, staging, db, used, fid, todo, uuids, waited, tx, pending, locks,
                   err, rolled, touched, solo, dangling, created, lockfiles, startup,
                   faults>>

SearchNext == \E r \in Requests : search_files(r)

SearchSpec == SearchInit /\ [][SearchNext]_vars

\* p is the first Len(p) characters of s
StartsWith(s, p) == Len(p) <= Len(s) /\ SubSeq(s, 1, Len(p)) = p

\* p with a "/" appended when it does not end with one
Normalized(p) == IF p[Len(p)] = "/" THEN p ELSE p \o <<"/">>

\* C20: a search by path prefix p returns exactly the committed rows whose path starts
\* with p normalized to end with "/", every character of p standing for itself; the
\* empty prefix returns nothing.
C20_PrefixSearch ==
    \A r \in Requests :
        (op[r] = "search" /\ pc[r] = "done") =>
            ret[r] = IF Len(arg[r].path) = 0 THEN {}
                     ELSE {m \in db : StartsWith(m.path, Normalized(arg[r].path))}

(***************************************************************************)
(* Atomic create.                                                          *)
(***************************************************************************)
\* the step in which request r, running endpoint o, ends with a response
Ends(r, o) == InFlight(r) /\ op[r] = o /\ pc'[r] \in {"done", "failed"}

\* C1 as stated: when a create_file request ends, a committed row and a final blob
\* for its id both exist if it succeeded, and neither exists if it failed.
C1_AtomicCreate ==
    [][\A r \in Requests :
         Ends(r, "create") =>
            IF pc'[r] = "done"
              THEN arg[r].id \in RowIds(db') /\ blobs'[arg[r].id] # NoFile
              ELSE arg[r].id \notin RowIds(db') /\ blobs'[arg[r].id] = NoFile]_vars

\* C1 amended: a create_file that succeeded leaves a committed row and a final blob
\* for its id; one that failed before its database commit returned leaves neither;
\* one whose blob commit failed after the database commit leaves no final blob, and
\* its row is committed when the blob commit raises.
C1_AtomicCreateAmended ==
    [][\A r \in Requests :
         /\ Ends(r, "create") =>
              IF pc'[r] = "done"
                THEN arg[r].id \in RowIds(db') /\ blobs'[arg[r].id] # NoFile
              ELSE IF ~dbDone[r]
                THEN arg[r].id \notin RowIds(db') /\ blobs'[arg[r].id] = NoFile
              ELSE blobs'[arg[r].id] = NoFile
         /\ (op[r] = "create" /\ pc[r] = "fs_commit" /\ pc'[r] = "rollback") =>
              arg[r].id \in RowIds(db') /\ blobs'[arg[r].id] = NoFile]_vars

\* one create has succeeded (row and blob are there) and another has failed in its
\* blob commit (its row is there, its blob is not)
C1_Witness ==
    \E r1, r2 \in Requests :
        /\ op[r1] = "create" /\ pc[r1] = "done"
        /\ arg[r1].id \in RowIds(db) /\ blobs[arg[r1].id] # NoFile
        /\ op[r2] = "create" /\ pc[r2] = "failed" /\ dbDone[r2] /\ err[r2] = "OSError"
        /\ arg[r2].id \in RowIds(db) /\ blobs[arg[r2].id] = NoFile

(***************************************************************************)
(* The unit of work: blob changes against the database commit.             *)
(***************************************************************************)
\* C2: when a request ends in failure without its database commit having succeeded,
\* it has removed or replaced no committed blob: the committed blobs are the ones
\* from before the request.
C2_FsOnlyAfterDbCommit ==
    [][\A r \in Requests :
         (InFlight(r) /\ pc'[r] = "failed" /\ ~dbDone[r]) => touched[r] = {}]_vars

\* the logical name of a row
Triple(m) == <<m.path, m.filename, m.file_extension>>

\* C3: no two committed rows share (path, filename, file_extension), and no two share
\* a uuid.
C3_Uniqueness ==
    \A m1, m2 \in db :
        m1 # m2 => Triple(m1) # Triple(m2) /\ m1.uuid # m2.uuid

\* the errors of injected I/O failures
IoErrors == {"OSError", "commit failed", "rollback failed"}

\* two ended creates of one logical name that overlapped in time, neither hit by an
\* I/O failure, nothing else having written that name
ConcurrentCreates(r1, r2) ==
    /\ r1 # r2
    /\ err[r1] \notin IoErrors /\ err[r2] \notin IoErrors
    /\ op[r1] = "create" /\ op[r2] = "create"
    /\ pc[r1] \in {"done", "failed"} /\ pc[r2] \in {"done", "failed"}
    /\ ~solo[r1] /\ ~solo[r2]
    /\ arg[r1].path = arg[r2].path /\ arg[r1].filename = arg[r2].filename
    /\ \A m \in db :
         Triple(m) = <<arg[r1].path, arg[r1].filename, "txt">>
            => m.uuid \in {arg[r1].id, arg[r2].id}

\* C4: of two concurrent creates with the same (path, filename, file_extension)
\* exactly one succeeds and the other fails with AlreadyExists; afterwards exactly one
\* committed blob exists for the name and no staging file of either request is left.
C4_ConcurrentCreate ==
    \A r1, r2 \in Requests :
        ConcurrentCreates(r1, r2) =>
            /\ \/ pc[r1] = "done" /\ pc[r2] = "failed"
                  /\ err[r2] = "ServiceFileAlreadyExistsError"
               \/ pc[r2] = "done" /\ pc[r1] = "failed"
                  /\ err[r1] = "ServiceFileAlreadyExistsError"
            /\ Cardinality({i \in {arg[r1].id, arg[r2].id} : blobs[i] # NoFile}) = 1
            /\ staging[arg[r1].id] = NoFile /\ staging[arg[r2].id] = NoFile

\* C5: the blob commit of a unit of work starts only after its database commit has
\* returned; and when the database commit fails, at the end of the request none of
\* its staged blobs is promoted, their staging files are removed, the pending map is
\* empty, and the commit error is the one the caller gets.
C5_CoordinatedCommit ==
    [][\A r \in Requests :
         /\ pc'[r] = "fs_commit" => dbDone'[r]
         /\ \A i \in Pending(r) : blobs'[i] # blobs[i] /\ blobs'[i] = pending[r][i] => dbDone[r]
         /\ (pc[r] = "rollback" /\ err[r] = "commit failed" /\ pc'[r] = "failed") =>
              /\ \A i \in Pending(r) : blobs'[i] = blobs[i] /\ staging'[i] = NoFile
              /\ pending'[r] = NoFiles
              /\ err'[r] = "commit failed"]_vars

(***************************************************************************)
(* Locks.                                                                  *)
(***************************************************************************)
\* C6: while one session holds an EXCLUSIVE lock on an id no other session holds any
\* lock on that id (several sessions may hold SHARED locks on it together).
C6_LockCompatibility ==
    \A i \in Ids : \A r1, r2 \in Requests :
        (r1 # r2 /\ locks[r1][i] = EXCLUSIVE) => locks[r2][i] = NoLock

\* two sessions hold a SHARED lock on one id at the same time
C6_Witness ==
    \E i \in Ids : \A r \in Requests : locks[r][i] = SHARED

\* request r is in _acquire_lock
Acquiring(r) == pc[r] \in {"rec_lock", "save", "get_lock", "del_lock"}

\* another session holds a lock on id i that a lock of this mode cannot go with
Incompatible(r, i, mode) ==
    \E r2 \in Requests \ {r} :
        locks[r2][i] = EXCLUSIVE \/ (mode = EXCLUSIVE /\ locks[r2][i] = SHARED)

\* C7: a session never gets a lock while another session holds an incompatible lock on
\* the id; it fails with FileLockError only when the lock is held against it and
\* lock_timeout is over; and a request in _acquire_lock always leaves it, with the
\* lock or with the error.
C7_SerializationWithTimeout ==
    /\ [][\A r \in Requests :
            /\ \A i \in Ids :
                 (locks'[r][i] # NoLock /\ locks'[r][i] # locks[r][i])
                    => ~Incompatible(r, i, locks'[r][i])
            /\ (Acquiring(r) /\ err[r] = "none" /\ err'[r] = "FileLockError") =>
                 /\ waited[r] = LockRetries
                 /\ \E i \in Ids : Incompatible(r, i, IF pc[r] = "get_lock" THEN SHARED
                                                                            ELSE EXCLUSIVE)]_vars
    /\ \A r \in Requests : Acquiring(r) ~> ~Acquiring(r)

\* a second request has been turned away with FileLockError while the first one still
\* holds its lock
C7_Witness ==
    \E r1, r2 \in Requests :
        /\ r1 # r2
        /\ err[r2] = "FileLockError"
        /\ \E i \in Ids : locks[r1][i] = EXCLUSIVE

\* C8: a unit of work that has ended, by commit or by rollback, holds no lock; and
\* get, delete and recover hold no lock once they have returned or raised.
C8_ScopedLocks ==
    \A r \in Requests :
        /\ pc[r] \in {"done", "failed"} => locks[r] = NoLocks
        /\ pc[r] = "handler" => locks[r] = NoLocks
        /\ (op[r] \in {"get", "delete", "sync"} /\ pc[r] \notin {"get_read", "del_rm"})
              => locks[r] = NoLocks

(***************************************************************************)
(* Reconciliation.                                                         *)
(***************************************************************************)
\* C9: after a crash between the database commit and the blob commit of a create,
\* a request that runs alone, whose recover() has run and whose
\* sync_storage_with_db succeeds, leaves no row of such a create without its blob.
C9_CrashSafety ==
    [][\A r \in Requests :
         (Ends(r, "sync") /\ pc'[r] = "done" /\ solo[r]) =>
            \A i \in dangling : i \in RowIds(db') => blobs'[i] # NoFile]_vars

\* C10: when sync_storage_with_db has succeeded with no other request running
\* concurrently, the ids of the committed rows are the ids of the committed blobs.
C10_PostSync ==
    [][\A r \in Requests :
         (Ends(r, "sync") /\ pc'[r] = "done" /\ solo[r]) =>
            RowIds(db') = {i \in Ids : blobs'[i] # NoFile}]_vars

(***************************************************************************)
(* Contracts of the handlers.                                              *)
(***************************************************************************)
\* C11: when a create_file given bytes b has succeeded for an id and no delete has
\* removed the blob since, a get_file_by_id of that id that succeeds returns exactly
\* b; and when it runs with no other request in flight its handler raises nothing
\* (no NotFound, no missing file, no lock timeout): it ends otherwise only when a
\* commit or rollback of the unit of work itself fails.
C11_RoundTrip ==
    [][\A r \in Requests :
         (Ends(r, "get") /\ created[arg[r].id] # Null) =>
            /\ pc'[r] = "done" => ret'[r] = created[arg[r].id]
            /\ (solo[r] /\ InHandler(r)) => (pc'[r] = "done" \/ err'[r] \in IoErrors)]_vars

\* a get has returned the bytes of a create that succeeded
C11_Witness ==
    \E r \in Requests :
        /\ op[r] = "get" /\ pc[r] = "done"
        /\ created[arg[r].id] \in Contents /\ ret[r] = created[arg[r].id]

\* request r takes a step from the head of its handler
HandlerStep(r) == pc[r] = "handler" /\ pc'[r] \notin {"handler", "crashed"}

\* C12: a delete_file that succeeds leaves neither the row nor the blob of its id, so
\* that a second delete_file of the id finds no row: it fails with NotFound at once,
\* and from its handler to its end it removes no file, writes none and takes no lock.
C12_IdempotentDelete ==
    [][\A r \in Requests :
         /\ (Ends(r, "delete") /\ pc'[r] = "done") =>
              arg[r].id \notin RowIds(db') /\ blobs'[arg[r].id] = NoFile
         /\ (op[r] = "delete" /\ HandlerStep(r) /\ arg[r].id \notin RowIds(db)) =>
              /\ pc'[r] = "rollback" /\ err'[r] = "ServiceFileNotFoundError"
              /\ blobs' = blobs /\ staging' = staging /\ locks' = locks
         /\ (Ends(r, "delete") /\ err[r] = "ServiceFileNotFoundError") =>
              /\ pc[r] = "rollback" /\ pc'[r] = "failed"
              /\ blobs' = blobs /\ staging' = staging /\ locks' = locks
              /\ touched[r] = {} /\ locks[r] = NoLocks]_vars

\* one create, then a delete of its id, then a second delete of the id that ran alone
\* and ended with NotFound
C12_Witness ==
    \E r \in Requests :
        /\ op[r] = "delete" /\ pc[r] = "failed" /\ err[r] = "ServiceFileNotFoundError"
        /\ solo[r] /\ used = {arg[r].id} /\ starts = 3 /\ faults = 0
        /\ arg[r].id \notin RowIds(db) /\ blobs[arg[r].id] = NoFile

\* the committed rows that carry the logical name request r asks for
SameName(r) == {m \in db : Triple(m) = <<arg[r].path, arg[r].filename, "txt">>}

\* C13: a create_file whose handler finds a committed row with its (path, filename,
\* extension) fails with AlreadyExists: it inserts nothing, stages nothing and takes
\* no lock, and up to its end the table, the blobs and the staging files are as they
\* were; no final blob and no staging file for its new id exist when it ends.
C13_DuplicateRejection ==
    [][\A r \in Requests :
         /\ (op[r] = "create" /\ HandlerStep(r) /\ SameName(r) # {}) =>
              /\ pc'[r] = "rollback" /\ err'[r] = "ServiceFileAlreadyExistsError"
              /\ tx' = tx /\ pending' = pending /\ locks' = locks
              /\ db' = db /\ blobs' = blobs /\ staging' = staging
         /\ (Ends(r, "create") /\ err[r] = "ServiceFileAlreadyExistsError") =>
              /\ pc[r] = "rollback" /\ pc'[r] = "failed"
              /\ db' = db /\ blobs' = blobs /\ staging' = staging
              /\ locks[r] = NoLocks /\ locks' = locks /\ pending[r] = NoFiles
              /\ blobs'[arg[r].id] = NoFile /\ staging'[arg[r].id] = NoFile]_vars

\* a create was turned away with AlreadyExists; the row that was there and its blob,
\* with the bytes it was created with, are still there
C13_Witness ==
    \E r \in Requests :
        /\ op[r] = "create" /\ pc[r] = "failed"
        /\ err[r] = "ServiceFileAlreadyExistsError"
        /\ blobs[arg[r].id] = NoFile /\ staging[arg[r].id] = NoFile
        /\ \E m \in SameName(r) :
             created[m.uuid] \in Contents /\ blobs[m.uuid] = created[m.uuid]

(***************************************************************************)
(* recover().                                                              *)
(***************************************************************************)
\* request r is in recover()
Recovering(r) == pc[r] \in {"rec_lock", "rec_rm"}

\* request r takes a step of its own
Moves(r) == pc'[r] # pc[r] \/ waited'[r] # waited[r] \/ fid'[r] # fid[r]

\* C14: when the recover() of a request returns and no other request has been in
\* flight since the request arrived, no staging file is left in the storage root;
\* and no step of recover() removes or changes a committed blob.
C14_OrphanRecovery ==
    [][\A r \in Requests :
         /\ (pc[r] # "handler" /\ pc'[r] = "handler" /\ solo'[r]) =>
              \A i \in Ids : staging'[i] = NoFile
         /\ (Recovering(r) /\ Moves(r)) => blobs' = blobs]_vars

\* a create died between its two commits and left its staging file; the next request
\* ran alone, its recover() has returned and no staging file is left
C14_Witness ==
    \E r \in Requests :
        /\ pc[r] = "handler" /\ solo[r] /\ starts = 2
        /\ dangling # {}
        /\ \A i \in Ids : staging[i] = NoFile

\* C15: recover() never raises: when the lock of a pending id is not free within
\* lock_timeout, or the staging file is gone when it is to be removed, recover()
\* passes over that file and goes on to the next one or returns.
C15_RecoverSkips ==
    [][\A r \in Requests :
         (Recovering(r) /\ Moves(r)) =>
            /\ pc'[r] \in {"rec_lock", "rec_rm", "handler", "crashed"}
            /\ err'[r] = "none"]_vars

(***************************************************************************)
(* Rollback.                                                               *)
(***************************************************************************)
\* C16: when a request that failed leaves the except clause, its transaction is
\* rolled back and file_session.rollback() has run (the staging files of its pending
\* ids are removed, its locks are released, its pending map is empty), also when the
\* rollback of the database session raised; and the error the caller gets is the
\* one that sent the request to the except clause.
C16_RollbackBothSides ==
    [][\A r \in Requests :
         (pc[r] = "rollback" /\ pc'[r] = "failed") =>
            /\ tx'[r] = EmptyTx
            /\ rolled'[r]
            /\ \A i \in Pending(r) : staging'[i] = NoFile
            /\ locks'[r] = NoLocks /\ pending'[r] = NoFiles
            /\ err'[r] = err[r]]_vars

\* C17: when a request is cancelled in its handler or in its commit phase, its
\* transaction is rolled back, the staging files of its pending ids are removed and
\* it holds no lock and no pending entry afterwards.
C17_Cancellation ==
    [][\A r \in Requests :
         (InHandler(r) /\ err'[r] = "CancelledError") =>
            /\ tx'[r] = EmptyTx
            /\ \A i \in Pending(r) : staging'[i] = NoFile
            /\ locks'[r] = NoLocks /\ pending'[r] = NoFiles]_vars

(***************************************************************************)
(* Metadata updates and lookups.                                           *)
(***************************************************************************)
\* the changes of request r would move its row onto the logical name of another
\* committed row
Collides(r) ==
    \E m0 \in get_by_id(r, fid[r]) : \E m \in db :
        /\ m.uuid # m0.uuid
        /\ Triple(Updated(m0, arg[r].update)) # Triple(m0)
        /\ Triple(Updated(m0, arg[r].update)) = Triple(m)

\* C18: an update_file_meta whose changes would give its row the (path, filename,
\* extension) of another committed row fails with AlreadyExists and changes no row.
C18_RenameCollision ==
    [][\A r \in Requests :
         (op[r] = "update" /\ pc[r] = "update" /\ Moves(r) /\ Collides(r)) =>
            /\ err'[r] = "ServiceFileAlreadyExistsError"
            /\ tx' = tx /\ db' = db]_vars

\* the response status the registered exception handlers give an error
StatusOf(e) ==
    CASE e = "ServiceFileNotFoundError" -> 404
      [] e = "ServiceFileAlreadyExistsError" -> 409
      [] OTHER -> 500

\* C19: get_file_by_id fails with the NotFound kind (404) when its id has no row, and
\* also when the row is there and the blob file is missing; in the second case the
\* shared lock taken for the read is released.
C19_GetNotFound ==
    [][\A r \in Requests :
         /\ (op[r] = "get" /\ HandlerStep(r) /\ arg[r].id \notin RowIds(db)) =>
              pc'[r] = "rollback" /\ StatusOf(err'[r]) = 404
         /\ (pc[r] = "get_read" /\ pc'[r] \notin {"get_read", "crashed"}
                /\ blobs[fid[r]] = NoFile) =>
              /\ pc'[r] = "rollback" /\ StatusOf(err'[r]) = 404
              /\ locks'[r] = NoLocks]_vars

(***************************************************************************)
(* The blob commit fails after the database commit.                        *)
(***************************************************************************)
\* C21: when file_session.commit() raises, the database commit has succeeded, the row
\* of the request is committed, and the error goes to the except clause; the except
\* clause leaves the table as it is and the request ends with that error (a 500).
C21_BlobCommitFailure ==
    [][\A r \in Requests :
         /\ (pc[r] = "fs_commit" /\ pc'[r] = "rollback") =>
              /\ dbDone[r] /\ err'[r] = "OSError"
              /\ db' = db /\ arg[r].id \in RowIds(db')
              /\ blobs'[arg[r].id] = NoFile
         /\ (pc[r] = "rollback" /\ dbDone[r] /\ pc'[r] = "failed") =>
              /\ db' = db
              /\ err'[r] = err[r] /\ err[r] = "OSError" /\ StatusOf(err'[r]) = 500]_vars

\* a create has ended with the error of its blob commit: its row is committed and
\* there is no blob for it
C21_Witness ==
    \E r \in Requests :
        /\ op[r] = "create" /\ pc[r] = "failed" /\ dbDone[r] /\ err[r] = "OSError"
        /\ \E m \in db : m.uuid = arg[r].id
        /\ blobs[arg[r].id] = NoFile

\* request r carries an empty change set
EmptyChange(r) == op[r] = "update" /\ model_dump(arg[r].update) = {}

\* C22: an update_file_meta with an empty change set whose id has a row does not
\* fail and returns that row as the lookup read it; no step of the request changes a
\* row (filename, path, extension, comment and updated_at included), a pending
\* change, a blob or a staging file.
C22_EmptyUpdate ==
    [][\A r \in Requests :
         (EmptyChange(r) /\ InHandler(r) /\ Moves(r)) =>
            /\ db' = db /\ tx' = tx /\ blobs' = blobs /\ staging' = staging
            /\ pc[r] = "handler" =>
                  IF get_by_id(r, arg[r].id) = {}
                    THEN pc'[r] = "rollback" /\ err'[r] = "ServiceFileNotFoundError"
                    ELSE pc'[r] # "rollback" /\ ret'[r] = get_by_id(r, arg[r].id)
            /\ pc[r] \notin {"handler", "rollback"} =>
                  pc'[r] # "rollback" /\ ret'[r] = ret[r] /\ ret[r] # {}]_vars

\* C23: an update_file_meta with a change set that is not empty flushes its row with
\* every field of the change set at the new value, every other field at the value it
\* had, and updated_at set; a change set with an explicit null for filename or path
\* is refused and changes nothing, so that no row ever has a null filename or path.
C23_UpdateFields ==
    [][/\ \A r \in Requests :
            (op[r] = "update" /\ pc[r] = "update" /\ Moves(r) /\ ~EmptyChange(r)) =>
               LET u == arg[r].update
                   old == get_by_id(r, fid[r])
               IN IF old = {} \/ u.filename = Null \/ u.path = Null
                    THEN /\ pc'[r] = "rollback" /\ err'[r] = "DatabaseOperationError"
                         /\ tx' = tx /\ db' = db
                    ELSE /\ pc'[r] = "db_commit"
                         /\ tx'[r].upd # {}
                         /\ \A m2 \in tx'[r].upd : \E m \in old :
                              /\ \A f \in {"filename", "path", "comment"} :
                                   m2[f] = IF u[f] = Unset THEN m[f] ELSE u[f]
                              /\ \A f \in {"uuid", "file_extension", "size"} : m2[f] = m[f]
                              /\ m2.updated_at = "now"
       /\ \A m \in db' : m.filename # Null /\ m.path # Null]_vars

\* one update with an explicit null has been refused, and another has flushed a new
\* path for its row, whose filename is the one it had
C23_Witness ==
    \E r1, r2 \in Requests :
        /\ op[r1] = "update" /\ pc[r1] = "failed" /\ err[r1] = "DatabaseOperationError"
        /\ op[r2] = "update" /\ pc[r2] = "db_commit" /\ arg[r2].update.path \in Paths
        /\ \E m2 \in tx[r2].upd : \E m \in db :
             /\ m.uuid = m2.uuid /\ m2.path = arg[r2].update.path /\ m2.path # m.path
             /\ m2.filename = m.filename /\ m2.updated_at = "now"

(***************************************************************************)
(* The row a create inserts.                                               *)
(***************************************************************************)
\* C24: the row create_file inserts for a request carrying bytes b has size = len(b),
\* created_at set and updated_at null.
C24_RowOfCreate ==
    [][\A r \in Requests :
         (op[r] = "create" /\ pc[r] = "handler" /\ pc'[r] = "save") =>
            /\ tx'[r].ins # {}
            /\ \A m \in tx'[r].ins :
                 /\ m.uuid = arg[r].id
                 /\ m.size = len(arg[r].data)
                 /\ m.created_at # Null /\ m.updated_at = Null]_vars

(***************************************************************************)
(* The pending map of a session: add, flush, commit, rollback.             *)
(***************************************************************************)
\* C25: add(id, bytes) sets the pending entry of id to bytes and leaves the other
\* entries, flush() leaves the pending map, and a commit() that succeeds leaves for
\* every pending id the final file with the bytes of its pending entry (those of the
\* last add, whatever flush() wrote before), no staging file, and an empty map.
C25_CommitPromotes ==
    [][\A r \in Requests :
         /\ (pc[r] = "add" /\ pc'[r] = "handler") =>
              pending'[r] = [pending[r] EXCEPT ![fid[r]] = arg[r].data]
         /\ (pc[r] = "handler" /\ pc'[r] = "handler") => pending'[r] = pending[r]
         /\ (op[r] = "session" /\ pc[r] = "fs_commit" /\ pc'[r] = "done") =>
              /\ \A i \in Pending(r) : blobs'[i] = pending[r][i] /\ staging'[i] = NoFile
              /\ \A i \in Ids \ Pending(r) : blobs'[i] = blobs[i]
              /\ pending'[r] = NoFiles]_vars

\* a session has committed: the final file of an id holds the bytes added last for
\* it, there is no staging file for it, the map is empty and the locks are released
C25_Witness ==
    \E r \in Requests : \E i \in Ids :
        /\ op[r] = "session" /\ pc[r] = "done"
        /\ created[i] = "yy" /\ blobs[i] = "yy" /\ staging[i] = NoFile
        /\ pending[r] = NoFiles /\ locks[r] = NoLocks

(***************************************************************************)
(* Requests for different ids.                                             *)
(***************************************************************************)
\* request q has staged a write for id x and has neither committed it nor rolled it
\* back: the entry is in its pending map and it holds the exclusive lock of x
Staged(q, x) == InFlight(q) /\ pending[q][x] # NoFile /\ locks[q][x] = EXCLUSIVE

\* C26: a request that is not for id x is neither made to wait nor made to fail by
\* the staged write of another request for x: where its recover() comes to the
\* staging file of x, it goes on without waiting for the lock and without raising.
C26_NonInterference ==
    [][\A r \in Requests : \A x \in Ids :
         (/\ pc[r] = "rec_lock" /\ Moves(r)
          /\ fid'[r] = x \/ (fid[r] = x /\ pc'[r] = "failed")
          /\ arg[r].id # x
          /\ \E q \in Requests \ {r} : Staged(q, x)) =>
            /\ waited'[r] = 0
            /\ pc'[r] # "failed"]_vars

(***************************************************************************)
(* Reconciliation next to a create.                                        *)
(***************************************************************************)
\* C27: with creates and reconciliations only, a sync_storage_with_db never removes
\* the blob of an id whose row is committed (the blob of a create that succeeded),
\* and when no request is in flight every create that succeeded has its row and
\* its blob.
C27_SyncKeepsLive ==
    [][(\A q \in Requests : op[q] \in {"none", "create", "sync"}) =>
         /\ \A r \in Requests :
              (op[r] = "sync" /\ pc[r] = "del_rm" /\ Moves(r) /\ blobs[fid[r]] # NoFile) =>
                 (fid[r] \in RowIds(db) => blobs'[fid[r]] # NoFile)
         /\ (\A q \in Requests : ~InFlight(q)') =>
              \A q \in Requests :
                 (op[q] = "create" /\ pc'[q] = "done") =>
                    arg'[q].id \in RowIds(db') /\ blobs'[arg'[q].id] # NoFile]_vars

\* C28: no step of recover() removes the staging file of an id that is in the
\* pending map of another request in flight; and when the blob commit of a create
\* starts, the staging file of each of its pending ids is there, with the bytes that
\* were flushed.
C28_RecoverSparesInFlight ==
    [][\A r \in Requests :
         /\ (pc[r] = "rec_rm" /\ Moves(r) /\ staging[fid[r]] # NoFile) =>
              \/ staging'[fid[r]] = staging[fid[r]]
              \/ ~\E q \in Requests \ {r} : InFlight(q) /\ pending[q][fid[r]] # NoFile
         /\ (op[r] = "create" /\ pc[r] = "fs_commit" /\ Moves(r)) =>
              \A i \in Pending(r) : staging[i] = pending[r][i]]_vars

\* a create is about to promote its staging file while the recover() of another
\* request has been waiting for the lock of that id
C28_Witness ==
    \E r, q \in Requests : \E x \in Ids :
        /\ op[q] = "create" /\ pc[q] = "fs_commit" /\ Staged(q, x)
        /\ staging[x] = pending[q][x]
        /\ pc[r] = "rec_lock" /\ fid[r] = x /\ waited[r] > 0

(***************************************************************************)
(* Rollback of the blob side.                                              *)
(***************************************************************************)
\* C29: when a request whose blob commit failed ends, no staging file of an id it
\* had staged is left in the storage root.
C29_CleanupAfterFailedCommit ==
    [][\A r \in Requests :
         (pc[r] = "rollback" /\ pc'[r] = "failed" /\ err[r] = "OSError" /\ dbDone[r]) =>
            staging'[arg[r].id] = NoFile]_vars

\* C30: rollback() removes the staging files of the ids in the pending map of its
\* session and no other, leaves every final file, releases the locks of the session
\* and empties its map, leaves the maps and locks of the other sessions, and raises
\* nothing, whether or not the pending entries were flushed.
C30_RollbackScope ==
    [][\A r \in Requests :
         (op[r] = "session" /\ pc[r] = "rollback" /\ Moves(r)) =>
            /\ \A i \in Ids : staging'[i] = IF i \in Pending(r) THEN NoFile ELSE staging[i]
            /\ blobs' = blobs
            /\ pending'[r] = NoFiles /\ locks'[r] = NoLocks
            /\ \A q \in Requests \ {r} : pending'[q] = pending[q] /\ locks'[q] = locks[q]
            /\ pc'[r] = "failed" /\ err'[r] = err[r]]_vars

\* a session has been rolled back: its map is empty, its locks are released, it has
\* left no staging file, and the staging file another session has flushed is there
C30_Witness ==
    \E r, q \in Requests : \E j \in Ids :
        /\ op[r] = "session" /\ pc[r] = "failed" /\ rolled[r] /\ err[r] = "none"
        /\ pending[r] = NoFiles /\ locks[r] = NoLocks
        /\ q # r /\ Staged(q, j) /\ staging[j] = pending[q][j]
        /\ \A i \in Ids \ {j} : staging[i] = NoFile

C31_SyncDeletesOrphans ==
    [][\A r \in Requests :
         /\ (op[r] = "sync" /\ InHandler(r) /\ Moves(r)) =>
              /\ staging' = staging /\ lockfiles \subseteq lockfiles'
              /\ solo[r] => \A i \in RowIds(db) : blobs'[i] = blobs[i]
              /\ \A i \in Ids : blobs'[i] \in {blobs[i], NoFile}
         /\ (Ends(r, "sync") /\ pc'[r] = "done" /\ solo[r]) =>
              \A i \in Ids : blobs'[i] # NoFile => i \in RowIds(db')
         /\ (op[r] = "sync" /\ pc[r] = "del_rm" /\ Moves(r) /\ blobs[fid[r]] = NoFile) =>
              pc'[r] \in {"del_lock", "db_commit"} /\ err'[r] = err[r]]_vars

\* a sync running alone is about to commit: it has removed a blob that had no row,
\* and a blob that has a row is there
C31_Witness ==
    \E r \in Requests :
        /\ op[r] = "sync" /\ pc[r] = "db_commit" /\ solo[r]
        /\ touched[r] # {}
        /\ \A i \in touched[r] : i \notin RowIds(db) /\ blobs[i] = NoFile
        /\ \E j \in RowIds(db) : blobs[j] # NoFile
        /\ lockfiles # {}

(***************************************************************************)
(* A reader next to a delete that has not committed.                       *)
(***************************************************************************)
\* request q is a delete_file that has removed the blob of id i and whose database
\* commit has not returned
UncommittedDelete(q, i) ==
    InFlight(q) /\ op[q] = "delete" /\ ~dbDone[q] /\ i \in touched[q]

\* C32: a get_file_by_id that has found the row of its id reads the complete bytes
\* of the blob: its read never finds the blob gone through a delete_file that has
\* not committed.
C32_DeleteIsolation ==
    [][\A r \in Requests :
         (op[r] = "get" /\ pc[r] = "get_read" /\ Moves(r) /\ pc'[r] # "crashed"
            /\ \E q \in Requests \ {r} : UncommittedDelete(q, fid[r])) =>
            pc'[r] = "db_commit" /\ ret'[r] \in Contents]_vars

\* C33: in every state of a session that has not failed, every id of its pending map
\* is locked EXCLUSIVE by that session, from add(id) until commit() or rollback(),
\* also across get(id) and delete(id) calls of the same session.
C33_PendingLocked ==
    \A r \in Requests :
        (InFlight(r) /\ pc[r] # "rollback") =>
            \A i \in Pending(r) : locks[r][i] = EXCLUSIVE

\* C34: a get(id) that returns gives back the complete bytes of some add: never a
\* file that was cut short.
C34_NoPartialRead ==
    [][\A r \in Requests :
         (pc[r] = "get_read" /\ Moves(r)) =>
            \/ err'[r] = "FileNotFoundError"
            \/ ret'[r] \in Contents]_vars

\* C35: recover() is a startup step, not a step of every request: a request that
\* arrives while another request is being processed does not go through recover()'s
\* removal of staging files.
C35_RecoverAtStartup ==
    [][\A r \in Requests :
         (~InFlight(r) /\ pc'[r] = "rec_lock") =>
            \A q \in Requests \ {r} : ~InFlight(q)]_vars

\* the rows of a table without the row of id i
OtherRows(rows, i) == {m \in rows : m.uuid # i}

\* row m2 is row m with the same uuid, size and created_at
SameIdentity(m2, m) ==
    m2.uuid = m.uuid /\ m2.size = m.size /\ m2.created_at = m.created_at

\* C37: no step of an update_file_meta request, from its lookup to its database
\* commit, touches the blob store (blobs, staging files, lock files, locks) or any
\* row other than the one of its id, and the row of its id keeps its uuid, size and
\* created_at in what the request flushes and in what it commits.
C37_UpdateLeavesRest ==
    [][\A r \in Requests :
         (op[r] = "update" /\ pc[r] \in {"handler", "update", "db_commit", "rollback"}
            /\ pc'[r] # pc[r]) =>
            /\ blobs' = blobs /\ staging' = staging /\ lockfiles' = lockfiles
            /\ locks' = locks /\ pending' = pending
            /\ OtherRows(db', arg[r].id) = OtherRows(db, arg[r].id)
            /\ \A m2 \in tx'[r].upd \cup (db' \ OtherRows(db', arg[r].id)) :
                 \E m \in db : SameIdentity(m2, m)]_vars

\* an update has committed a new filename for a row whose blob is in the store
C37_Witness ==
    \E r \in Requests :
        /\ op[r] = "update" /\ pc[r] = "done"
        /\ arg[r].id \in Ids /\ blobs[arg[r].id] \in Contents
        /\ \E m \in db : m.uuid = arg[r].id /\ m.filename = "draft" /\ m.updated_at = "now"

\* C38: an add(id, bytes) that does not get the lock leaves the session as it was,
\* while it waits and when it fails with FileLockError: the pending map is unchanged,
\* the session records no lock on id, and neither a staging file nor a final file is
\* written.
C38_FailedAddNoChange ==
    [][\A r \in Requests :
         (pc[r] = "add" /\ Moves(r) /\ pc'[r] # "handler") =>
            /\ pc'[r] = "rollback" => err'[r] = "FileLockError"
            /\ pending' = pending
            /\ locks'[r][fid[r]] = NoLock
            /\ \A i \in Ids \ {fid[r]} : locks'[r][i] = locks[r][i]
            /\ staging' = staging /\ blobs' = blobs]_vars

\* an add has just timed out on an id that is held by another session, in a session
\* whose pending map has an entry with other bytes for that id
C38_Witness ==
    \E r \in Requests : \E q \in Requests \ {r} :
        /\ op[r] = "session" /\ pc[r] = "rollback" /\ err[r] = "FileLockError"
        /\ arg[r].data \in Contents /\ fid[r] \in Ids
        /\ locks[q][fid[r]] = EXCLUSIVE /\ locks[r][fid[r]] = NoLock
        /\ pending[r][fid[r]] \in Contents /\ pending[r][fid[r]] # arg[r].data

\* every attempt of the log failed
AllFailed(log) == \A k \in 1..Len(log) : log[k] # "ok"

\* C39: the startup handler makes at most db_retries attempts, none after one that
\* succeeded, sleeps once between two attempts, and raises exactly when all
\* db_retries attempts have failed, and then a DatabaseError.
C39_StartupRetry ==
    LET log == startup.log
    IN startup.at # "none" =>
         /\ Len(log) <= startup.retries
         /\ \A k \in 1..(Len(log) - 1) : log[k] # "ok"
         /\ startup.slept = IF startup.at = "try" THEN Len(log) ELSE Len(log) - 1
         /\ startup.at = "returned" => log[Len(log)] = "ok"
         /\ startup.at = "raised" =>
              /\ Len(log) = startup.retries /\ AllFailed(log)
              /\ startup.exc \in DatabaseErrors

====
